---- MODULE Spec2Model ----
(***************************************************************************)
(* A model of the Probo MCP server: the six tools of server.js, the six    *)
(* operations of proboClient.js, the error normalizer handleApiError and   *)
(* the result envelope formatResult.                                       *)
(*                                                                         *)
(* JavaScript values are modelled as tagged records [t, v]; an object is   *)
(* a sequence of <<key, value>> pairs in insertion order; strings are TLA+ *)
(* strings, built with \o as the code builds them with += and templates.   *)
(***************************************************************************)
EXTENDS Integers, Sequences, FiniteSets, TLC

VARIABLES env, now, inv

vars == <<env, now, inv>>

(***************************************************************************)
(* JavaScript values                                                       *)
(***************************************************************************)
Undefined == [t |-> "undefined", v |-> "undefined"]

Null == [t |-> "null", v |-> "null"]

Str(s) == [t |-> "str", v |-> s]

Num(n) == [t |-> "num", v |-> n]

Bool(b) == [t |-> "bool", v |-> b]

List(l) == [t |-> "list", v |-> l]

Obj(pairs) == [t |-> "obj", v |-> pairs]

\* new Error(message), with its own enumerable properties (own) and, for a
\* transport failure, the response and request the transport attached.
ErrorValue(name, message, own, response, request) ==
  [t |-> "error",
   v |-> [name |-> name, message |-> message, own |-> own,
          response |-> response, request |-> request]]

\* if (x), x ? a : b, x || y, !x
Truthy(x) ==
  CASE x.t = "undefined" -> FALSE
    [] x.t = "null" -> FALSE
    [] x.t = "str" -> x.v # ""
    [] x.t = "num" -> x.v # 0
    [] x.t = "bool" -> x.v
    [] OTHER -> TRUE

\* x || y
OrElse(x, y) == IF Truthy(x) THEN x ELSE y

\* Reading a property of null or undefined throws a TypeError.
Nullish(x) == x.t \in {"null", "undefined"}

HasKey(pairs, k) == \E i \in 1..Len(pairs) : pairs[i][1] = k

Lookup(pairs, k) ==
  IF HasKey(pairs, k)
  THEN pairs[CHOOSE i \in 1..Len(pairs) :
               pairs[i][1] = k /\ \A j \in (i+1)..Len(pairs) : pairs[j][1] # k][2]
  ELSE Undefined

\* x.k for a non-nullish x
Prop(x, k) ==
  CASE x.t = "obj" -> Lookup(x.v, k)
    [] x.t = "error" ->
         IF k = "message" THEN Str(x.v.message)
         ELSE IF k = "response" THEN x.v.response
         ELSE IF k = "request" THEN x.v.request
         ELSE Lookup(x.v.own, k)
    [] x.t \in {"list", "str"} /\ k = "length" -> Num(Len(x.v))
    [] OTHER -> Undefined

\* Array.isArray(x)
IsArray(x) == x.t = "list"

\* { ...a, ...b }: the keys of b are added to (or replace those of) a
Spread(a, b) ==
  SelectSeq(a, LAMBDA p : ~HasKey(b, p[1])) \o b

\* F of the value of x: x is evaluated once, however often F reads it
With(x, F(_)) == CHOOSE y \in {F(v) : v \in {x}} : TRUE

RECURSIVE JoinStrOf(_, _)
JoinStrOf(parts, sep) ==
  IF Len(parts) = 0 THEN ""
  ELSE IF Len(parts) = 1 THEN parts[1]
  ELSE parts[1] \o sep \o JoinStrOf(Tail(parts), sep)

\* parts.join(sep)
JoinStr(parts, sep) == With(<<parts, sep>>, LAMBDA a : JoinStrOf(a[1], a[2]))

\* String(x), `${x}`
RECURSIVE ToStr(_)
ToStr(x) ==
  CASE x.t = "str" -> x.v
    [] x.t = "num" -> ToString(x.v)
    [] x.t = "bool" -> IF x.v THEN "true" ELSE "false"
    [] x.t = "list" ->
         JoinStr([i \in 1..Len(x.v) |->
                    IF Nullish(x.v[i]) THEN "" ELSE ToStr(x.v[i])], ",")
    [] x.t = "obj" -> "[object Object]"
    [] x.t = "error" -> x.v.name \o ": " \o x.v.message
    [] OTHER -> x.t

\* The escapes JSON.stringify applies to the characters of a string (the
\* string is halved, so that the evaluation of a long one stays shallow)
RECURSIVE Quote(_)
QuoteOf(s) ==
  IF Len(s) = 0 THEN ""
  ELSE IF Len(s) = 1
       THEN IF s = "\n" THEN "\\n"
            ELSE IF s = "\"" THEN "\\\""
            ELSE IF s = "\\" THEN "\\\\"
            ELSE s
       ELSE LET h == Len(s) \div 2
            IN Quote(SubSeq(s, 1, h)) \o Quote(SubSeq(s, h + 1, Len(s)))

\* QuoteOf of the value of s
Quote(s) == With(s, QuoteOf)

\* Whether JSON.stringify drops a property holding x (and writes null for
\* it in an array)
Dropped(x) == x.t = "undefined"

\* The own enumerable properties JSON.stringify walks
Enumerable(x) == IF x.t = "error" THEN x.v.own ELSE x.v

\* JSON.stringify(x, null, indent) for a value that is not undefined;
\* pad is the indentation of one level ("" for the compact form) and cur
\* the indentation of the enclosing level.
RECURSIVE Stringify(_, _, _)
StringifyOf(x, pad, cur) ==
  LET nl == IF pad = "" THEN "" ELSE "\n"
      colon == IF pad = "" THEN ":" ELSE ": "
      inner == cur \o pad
  IN CASE x.t = "str" -> "\"" \o Quote(x.v) \o "\""
       [] x.t = "num" -> ToString(x.v)
       [] x.t = "bool" -> IF x.v THEN "true" ELSE "false"
       [] x.t = "list" ->
            IF Len(x.v) = 0 THEN "[]"
            ELSE "[" \o nl \o
                 JoinStr([i \in 1..Len(x.v) |->
                            inner \o (IF Dropped(x.v[i]) THEN "null"
                                      ELSE Stringify(x.v[i], pad, inner))],
                         "," \o nl)
                 \o nl \o cur \o "]"
       [] x.t \in {"obj", "error"} ->
            LET kept == SelectSeq(Enumerable(x), LAMBDA p : ~Dropped(p[2]))
            IN IF Len(kept) = 0 THEN "{}"
               ELSE "{" \o nl \o
                    JoinStr([i \in 1..Len(kept) |->
                               inner \o "\"" \o Quote(kept[i][1]) \o "\"" \o colon
                               \o Stringify(kept[i][2], pad, inner)],
                            "," \o nl)
                    \o nl \o cur \o "}"
       [] OTHER -> "null"

\* StringifyOf of the values of x and cur
Stringify(x, pad, cur) ==
  With(<<x, cur>>, LAMBDA a : StringifyOf(a[1], pad, a[2]))

\* JSON.stringify(x)
JSONstringify(x) == Stringify(x, "", "")

\* JSON.stringify(x, null, 2)
JSONstringify2(x) == Stringify(x, "  ", "")

(***************************************************************************)
(* Exceptions: an evaluation either yields a value or throws an error      *)
(***************************************************************************)
Ok(x) == [thrown |-> FALSE, value |-> x]

Throw(e) == [thrown |-> TRUE, error |-> e]

\* The TypeError of reading property k of null or undefined
TypeErrorRead(x, k) ==
  ErrorValue("TypeError",
             "Cannot read properties of " \o x.t \o " (reading '" \o k \o "')",
             <<>>, Undefined, Undefined)

(***************************************************************************)
(* proboClient.js: configuration                                           *)
(***************************************************************************)
\* process.env.X ?? fallback: only an unset variable falls back
EnvOrUnset(x, fallback) == IF Nullish(x) THEN fallback ELSE x.v

\* process.env.X || fallback: an unset variable and an empty one both fall back
EnvOr(x, fallback) == IF Truthy(x) THEN x.v ELSE fallback

PROBO_API_KEY == env.PROBO_API_KEY

PROBO_API_URL == EnvOr(env.PROBO_API_URL, "https://api.proboprints.com")

PROBO_API_MODE == EnvOr(env.PROBO_API_MODE, "test")

\* The process without the check of the key: it starts whatever the key
ServerRunningAlways == TRUE

\* Lines 20-22: without a key the module throws while it is loaded, so
\* server.js, which imports it, never registers a tool nor connects
ServerRunning == Truthy(PROBO_API_KEY)

(***************************************************************************)
(* proboClient.js: handleApiError                                          *)
(***************************************************************************)
\* The number of validation errors listed in a message
MaxListedErrors == 10

\* s.split('\n')
RECURSIVE SplitLines(_)
SplitLines(s) ==
  IF \A i \in 1..Len(s) : SubSeq(s, i, i) # "\n" THEN <<s>>
  ELSE LET k == CHOOSE i \in 1..Len(s) :
                  /\ SubSeq(s, i, i) = "\n"
                  /\ \A j \in 1..(i-1) : SubSeq(s, j, j) # "\n"
       IN <<SubSeq(s, 1, k-1)>> \o SplitLines(SubSeq(s, k+1, Len(s)))

\* Unique without the Set: every element is kept
UniqueKeepAll(xs) == xs

\* ErrorLines without the cut at ten entries
ErrorLinesAll(errs) ==
  LET L[i \in 0..Len(errs)] ==
        IF i = 0 THEN "" ELSE L[i-1] \o "\n- " \o errs[i]
  IN L[Len(errs)]

\* [...new Set(xs)]: the first occurrence of each element, in order
Unique(xs) ==
  LET first == {i \in 1..Len(xs) : \A j \in 1..(i-1) : xs[j] # xs[i]}
      F[i \in 0..Len(xs)] ==
        IF i = 0 THEN <<>>
        ELSE IF i \in first THEN Append(F[i-1], xs[i]) ELSE F[i-1]
  IN F[Len(xs)]

\* xs.slice(0, n)
Slice(xs, n) == SubSeq(xs, 1, IF Len(xs) < n THEN Len(xs) ELSE n)

\* The lines appended for the collected validation errors (lines 407-413
\* and 415-421)
ErrorLines(errs) ==
  LET shown == Slice(errs, MaxListedErrors)
      L[i \in 0..Len(shown)] ==
        IF i = 0 THEN "" ELSE L[i-1] \o "\n- " \o shown[i]
  IN L[Len(shown)] \o
     (IF Len(errs) > MaxListedErrors
      THEN "\n... and " \o ToString(Len(errs) - MaxListedErrors) \o " more errors"
      ELSE "")

\* Lines 402-423: the validation errors of a 400 response
ValidationErrors(status, data) ==
  LET errors == Prop(data, "errors")
  IN IF status = Num(400) /\ Truthy(errors)
     THEN "\nValidation errors:" \o
          (IF errors.t = "str" THEN ErrorLines(Unique(SplitLines(errors.v)))
           ELSE IF IsArray(errors)
                THEN ErrorLines([i \in 1..Len(errors.v) |-> ToStr(errors.v[i])])
                ELSE "")
     ELSE ""

\* BodyDetail without the message branch
BodyDetailNoMessage(data) ==
  IF data.t = "str" THEN " - " \o data.v
  ELSE " - " \o JSONstringify(data)

\* Lines 393-400: the detail taken from the body of the response
BodyDetail(data) ==
  IF Truthy(Prop(data, "message")) THEN " - " \o ToStr(Prop(data, "message"))
  ELSE IF data.t = "str" THEN " - " \o data.v
  ELSE " - " \o JSONstringify(data)

\* handleApiError without the branch for a request that got no response
handleApiErrorNoRequestBranch(error, message) ==
  LET prefix == IF message = "" THEN "API request failed" ELSE message
      response == Prop(error, "response")
      status == Prop(response, "status")
      data == Prop(response, "data")
      errorMessage ==
        IF Truthy(response)
        THEN prefix \o ": HTTP " \o ToStr(status) \o
             (IF Truthy(data)
              THEN BodyDetail(data) \o ValidationErrors(status, data)
              ELSE "")
        ELSE prefix \o ": " \o ToStr(Prop(error, "message"))
      errorData == IF Truthy(response) THEN data ELSE Null
  IN Throw(ErrorValue("Error", errorMessage, << <<"data", errorData>> >>,
                      Undefined, Undefined))

\* The error handleApiError builds; it throws it, and never returns
handleApiError(error, message) ==
  LET prefix == IF message = "" THEN "API request failed" ELSE message
      response == Prop(error, "response")
      status == Prop(response, "status")
      data == Prop(response, "data")
      errorMessage ==
        IF Truthy(response)
        THEN prefix \o ": HTTP " \o ToStr(status) \o
             (IF Truthy(data)
              THEN BodyDetail(data) \o ValidationErrors(status, data)
              ELSE "")
        ELSE IF Truthy(Prop(error, "request"))
             THEN prefix \o ": No response received"
             ELSE prefix \o ": " \o ToStr(Prop(error, "message"))
      errorData == IF Truthy(response) THEN data ELSE Null
  IN Throw(ErrorValue("Error", errorMessage, << <<"data", errorData>> >>,
                      Undefined, Undefined))

(***************************************************************************)
(* proboClient.js: the requests the six operations build                   *)
(***************************************************************************)
\* A parameter default: f(x = d) takes d when x is undefined
Default(x, d) == IF x.t = "undefined" THEN d ELSE x

\* URLSearchParams.toString() of one name or value (the characters the
\* inputs of this model use)
FormEncode(s) ==
  JoinStr([k \in 1..Len(s) |->
             LET c == SubSeq(s, k, k)
             IN CASE c = " " -> "+"
                  [] c = "&" -> "%26"
                  [] c = "=" -> "%3D"
                  [] c = "/" -> "%2F"
                  [] OTHER -> c], "")

\* encodeURIComponent(s) (the characters the inputs of this model use)
encodeURIComponent(s) ==
  JoinStr([k \in 1..Len(s) |->
             LET c == SubSeq(s, k, k)
             IN CASE c = " " -> "%20"
                  [] c = "&" -> "%26"
                  [] c = "=" -> "%3D"
                  [] c = "/" -> "%2F"
                  [] OTHER -> c], "")

\* URLSearchParams.toString(): name=value pairs joined by &
QueryString(pairs) ==
  With(pairs, LAMBDA ps :
    JoinStr([i \in 1..Len(ps) |->
               FormEncode(ps[i][1]) \o "=" \o FormEncode(ToStr(ps[i][2]))],
            "&"))

Request(method, url, data) == [method |-> method, url |-> url, data |-> data]

\* getProducts, up to its await (lines 85-102)
getProductsRequest(query, options) ==
  LET q == Default(query, Str(""))
      o == Default(options, Obj(<<>>))
      queryParams ==
        << <<"page", OrElse(Prop(o, "page"), Num(1))>>,
           <<"per_page", OrElse(Prop(o, "per_page"), Num(20))>> >>
        \o (IF Truthy(q) THEN << <<"search", q>> >> ELSE <<>>)
  IN With(QueryString(queryParams),
          LAMBDA qs : Ok(Request("GET", "/products"
                                        \o (IF qs # "" THEN "?" \o qs ELSE ""),
                                 Undefined)))

\* hasDimension that only looks for the plain code
hasDimensionPlainOnly(productOptions, code) ==
  \E i \in 1..Len(productOptions) : Prop(productOptions[i], "code") = Str(code)

\* productOptions.some(opt => opt.code === code || opt.code === code_mm)
\* (lines 138-139)
hasDimension(productOptions, code) ==
  \E i \in 1..Len(productOptions) :
    \/ Prop(productOptions[i], "code") = Str(code)
    \/ Prop(productOptions[i], "code") = Str(code \o "_mm")

\* configureProduct: the payload of lines 135-167
configureProductPayload(productCode, options, address, language) ==
  LET opts == Default(options, List(<<>>))
      addr == Default(address, Null)
      lang == Default(language, Str("en"))
      hasWidth == hasDimension(opts.v, "width")
      hasHeight == hasDimension(opts.v, "height")
      productOptions ==
        opts.v
        \o (IF ~hasWidth
            THEN <<Obj(<< <<"code", Str("width")>>, <<"value", Num(1000)>> >>)>>
            ELSE <<>>)
        \o (IF ~hasHeight
            THEN <<Obj(<< <<"code", Str("height")>>, <<"value", Num(1000)>> >>)>>
            ELSE <<>>)
  IN Obj(<< <<"products",
              List(<<Obj(<< <<"code", productCode>>,
                            <<"options", List(productOptions)>> >>)>>)>>,
            <<"language", lang>> >>
         \o (IF Truthy(addr)
             THEN << <<"deliveries", List(<<Obj(<< <<"address", addr>> >>)>>)>> >>
             ELSE <<>>))

\* configureProduct, up to its await (lines 129-172)
configureProductRequest(productCode, options, address, language) ==
  Ok(Request("POST", "/products/configure",
             configureProductPayload(productCode, options, address, language)))

\* configureProductLookup replaced by a second attempt of the POST (for a
\* call with the product code alone)
configureProductLookupRetry(productCode) ==
  configureProductRequest(productCode, List(<<>>), Undefined, Undefined).value

\* The product lookup configureProduct sends when its POST failed (line 181)
configureProductLookup(productCode) ==
  Request("GET", "/products?search=" \o encodeURIComponent(ToStr(productCode)),
          Undefined)

\* placeOrder: the address of lines 213-225
formattedAddress(address) ==
  Obj(<< <<"company_name", OrElse(Prop(address, "address_company_name"), Str(""))>>,
         <<"first_name", Prop(address, "address_first_name")>>,
         <<"last_name", Prop(address, "address_last_name")>>,
         <<"street", Prop(address, "address_street")>>,
         <<"house_number", Prop(address, "address_house_number")>>,
         <<"addition", OrElse(Prop(address, "address_addition"), Str(""))>>,
         <<"postal_code", Prop(address, "address_postal_code")>>,
         <<"city", Prop(address, "address_city")>>,
         <<"country", Prop(address, "address_country")>>,
         <<"phone", OrElse(Prop(address, "address_telephone_number"), Str(""))>>,
         <<"email", OrElse(Prop(address, "address_email"), Str(""))>> >>)

\* x && x.length > 0
NonEmpty(x) ==
  /\ Truthy(x)
  /\ Prop(x, "length").t = "num"
  /\ Prop(x, "length").v > 0

\* The placeholder file of lines 245-250
placeholderFiles ==
  List(<<Obj(<< <<"uri", Str("https://placekitten.com/800/600")>>,
                <<"fill", Bool(TRUE)>> >>)>>)

\* formattedProduct with the placeholder added whenever no files are given
formattedProductAlwaysPlaceholder(product) ==
  Obj(<< <<"code", OrElse(Prop(product, "code"), Prop(product, "customer_code"))>> >>
      \o (IF NonEmpty(Prop(product, "options"))
          THEN << <<"options", Prop(product, "options")>> >>
          ELSE <<>>)
      \o (IF NonEmpty(Prop(product, "files"))
          THEN << <<"files", Prop(product, "files")>> >>
          ELSE << <<"files", placeholderFiles>> >>))

\* placeOrder: one product of lines 228-264, for a product that is not
\* null or undefined
formattedProduct(product) ==
  Obj(<< <<"code", OrElse(Prop(product, "code"), Prop(product, "customer_code"))>> >>
      \o (IF NonEmpty(Prop(product, "options"))
          THEN << <<"options", Prop(product, "options")>> >>
          ELSE <<>>)
      \o (IF NonEmpty(Prop(product, "files"))
          THEN << <<"files", Prop(product, "files")>> >>
          ELSE IF ~NonEmpty(Prop(product, "options"))
               THEN << <<"files", placeholderFiles>> >>
               ELSE <<>>)
      \o (IF Truthy(Prop(product, "uploader"))
          THEN << <<"uploader", Prop(product, "uploader")>> >>
          ELSE <<>>)
      \o (IF NonEmpty(Prop(product, "uploaders"))
          THEN << <<"uploaders", Prop(product, "uploaders")>> >>
          ELSE <<>>))

\* placeOrder: the products of lines 228-264; reading product.code of a
\* null product throws
formattedProducts(configuration) ==
  LET products == OrElse(Prop(configuration, "products"), List(<<>>)).v
      bad == {i \in 1..Len(products) : Nullish(products[i])}
  IN IF bad # {}
     THEN Throw(TypeErrorRead(products[CHOOSE i \in bad : \A j \in bad : i <= j],
                              "code"))
     ELSE Ok(List([i \in 1..Len(products) |-> formattedProduct(products[i])]))

\* isTestDefault as the JSDoc of placeOrder states it ([isTest=true])
isTestDefaultTrue == Bool(TRUE)

\* placeOrder: the default of its isTest parameter (line 209)
isTestDefault == Bool(PROBO_API_MODE = "test")

\* AsList without the Array.isArray test
AsListWrapAll(x) == List(<<x>>)

\* placeOrder: a string or a list, as a list (lines 275-277 and 282-284)
AsList(x) == IF IsArray(x) THEN x ELSE List(<<x>>)

\* orderPayload with the contact e-mail of the options taken before that
\* of the address
orderPayloadContactFirst(products, address, reference, isTest, additionalOptions, clock) ==
  Obj(Spread(Spread(
        << <<"order_type", IF Truthy(isTest) THEN Str("test") ELSE Str("production")>>,
           <<"reference", reference>>,
           <<"id", OrElse(Prop(additionalOptions, "orderId"),
                          Str("order-" \o ToString(clock)))>>,
           <<"contact_email",
             OrElse(OrElse(Prop(additionalOptions, "contactEmail"),
                           Prop(address, "address_email")), Str(""))>> >>,
        IF Truthy(Prop(additionalOptions, "callbackUrl"))
        THEN << <<"callback_url", AsList(Prop(additionalOptions, "callbackUrl"))>> >>
        ELSE <<>>),
        IF Truthy(Prop(additionalOptions, "errorEmails"))
        THEN << <<"error_email_addresses",
                  AsList(Prop(additionalOptions, "errorEmails"))>> >>
        ELSE <<>>)
      \o << <<"deliveries",
              List(<<Obj(<< <<"address", formattedAddress(address)>>,
                            <<"shipping_method_preset",
                              OrElse(Prop(additionalOptions, "shippingMethodPreset"),
                                     Str("cheapest"))>>,
                            <<"delivery_date_preset",
                              OrElse(Prop(additionalOptions, "deliveryDatePreset"),
                                     Str("cheapest"))>> >>)>>)>>,
            <<"products", products>> >>)

\* placeOrder: the payload of lines 267-298; clock is Date.now()
orderPayload(products, address, reference, isTest, additionalOptions, clock) ==
  Obj(Spread(Spread(
        << <<"order_type", IF Truthy(isTest) THEN Str("test") ELSE Str("production")>>,
           <<"reference", reference>>,
           <<"id", OrElse(Prop(additionalOptions, "orderId"),
                          Str("order-" \o ToString(clock)))>>,
           <<"contact_email",
             OrElse(OrElse(Prop(address, "address_email"),
                           Prop(additionalOptions, "contactEmail")), Str(""))>> >>,
        IF Truthy(Prop(additionalOptions, "callbackUrl"))
        THEN << <<"callback_url", AsList(Prop(additionalOptions, "callbackUrl"))>> >>
        ELSE <<>>),
        IF Truthy(Prop(additionalOptions, "errorEmails"))
        THEN << <<"error_email_addresses",
                  AsList(Prop(additionalOptions, "errorEmails"))>> >>
        ELSE <<>>)
      \o << <<"deliveries",
              List(<<Obj(<< <<"address", formattedAddress(address)>>,
                            <<"shipping_method_preset",
                              OrElse(Prop(additionalOptions, "shippingMethodPreset"),
                                     Str("cheapest"))>>,
                            <<"delivery_date_preset",
                              OrElse(Prop(additionalOptions, "deliveryDatePreset"),
                                     Str("cheapest"))>> >>)>>)>>,
            <<"products", products>> >>)

\* placeOrderRequest with the language of the configuration in the payload
placeOrderRequestLanguage(configuration, address, reference, isTest, additionalOptions, clock) ==
  With(formattedProducts(configuration), LAMBDA products :
    IF products.thrown THEN products
    ELSE Ok(Request("POST", "/order",
                    Obj(orderPayload(products.value, address, reference,
                                     Default(isTest, isTestDefault),
                                     Default(additionalOptions, Obj(<<>>)), clock).v
                        \o (IF Prop(configuration, "language") = Undefined THEN <<>>
                            ELSE << <<"language", Prop(configuration, "language")>> >>)))))

\* placeOrder, up to its await (lines 209-304)
placeOrderRequest(configuration, address, reference, isTest, additionalOptions, clock) ==
  With(formattedProducts(configuration), LAMBDA products :
    IF products.thrown THEN products
    ELSE Ok(Request("POST", "/order",
                    orderPayload(products.value, address, reference,
                                 Default(isTest, isTestDefault),
                                 Default(additionalOptions, Obj(<<>>)), clock))))

\* getOrderStatusRequest with the time of the request in its body
getOrderStatusRequestStamped(orderIds) ==
  Ok(Request("POST", "/order/status",
             Obj(<< <<"orders",
                      List([i \in 1..Len(orderIds.v) |->
                              Obj(<< <<"id", orderIds.v[i]>> >>)])>>,
                    <<"requested_at", Num(now)>> >>)))

\* getOrderStatus, up to its await (lines 316-325)
getOrderStatusRequest(orderIds) ==
  Ok(Request("POST", "/order/status",
             Obj(<< <<"orders",
                      List([i \in 1..Len(orderIds.v) |->
                              Obj(<< <<"id", orderIds.v[i]>> >>)])>> >>)))

\* getAllOrders, up to its await (lines 337-345)
getAllOrdersRequest(filters) ==
  Ok(Request("GET", "/orders?" \o QueryString(Default(filters, Obj(<<>>)).v),
             Undefined))

\* cancelOrderRequest with a counter shared by the invocations: the body
\* carries the number of invocations called so far
cancelOrderRequestCounted(orderId) ==
  Ok(Request("POST", "/order/cancel",
             Obj(<< <<"id", orderId>>,
                    <<"seq", Num(Cardinality({j \in DOMAIN inv :
                                                inv[j].pc # "idle"}))>> >>)))

\* cancelOrder, up to its await (lines 357-367)
cancelOrderRequest(orderId) ==
  Ok(Request("POST", "/order/cancel", Obj(<< <<"id", orderId>> >>)))

(***************************************************************************)
(* proboClient.js: what the six operations do with the transport's answer  *)
(* answer is Ok(response) or Throw(error), as await client.get/post gives  *)
(***************************************************************************)
\* getProductsResult without the transformation: the body is returned as
\* it came
getProductsResultUnchanged(answer) ==
  IF answer.thrown THEN handleApiError(answer.error, "Failed to fetch products")
  ELSE Ok(Prop(answer.value, "data"))

\* getProducts, from its await on (lines 102-118)
getProductsResult(answer) ==
  IF answer.thrown THEN handleApiError(answer.error, "Failed to fetch products")
  ELSE LET responseData == Prop(answer.value, "data")
       IN IF Nullish(responseData)
          THEN handleApiError(TypeErrorRead(responseData, "data"),
                              "Failed to fetch products")
          ELSE Ok(Obj(<< <<"products",
                           OrElse(Prop(responseData, "data"), List(<<>>))>>,
                         <<"meta", OrElse(Prop(responseData, "meta"), Obj(<<>>))>> >>))

\* PassThrough with a catch block that ends normally: the operation
\* resolves to undefined
PassThroughSwallow(answer, prefix) ==
  IF answer.thrown THEN Ok(Undefined)
  ELSE Ok(Prop(answer.value, "data"))

\* return response.data, or the catch block with its prefix: placeOrder
\* (lines 304-308), getOrderStatus (325-329), getAllOrders (345-349),
\* cancelOrder (367-371) and, after its lookup, configureProduct (172-195)
PassThrough(answer, prefix) ==
  IF answer.thrown THEN handleApiError(answer.error, prefix)
  ELSE Ok(Prop(answer.value, "data"))

\* configureProduct: the try block of its lookup (lines 180-189), from
\* the await on: what its statements throw
configureProductLookupTry(answer) ==
  IF answer.thrown THEN answer
  ELSE LET data == Prop(answer.value, "data")
           found == Prop(data, "data")
           firstProduct == IF found.t = "list" THEN found.v[1]
                           ELSE Str(SubSeq(found.v, 1, 1))
       IN IF Nullish(data) THEN Throw(TypeErrorRead(data, "data"))
          ELSE IF NonEmpty(found) /\ Nullish(firstProduct)
               THEN Throw(TypeErrorRead(firstProduct, "code"))
               ELSE Ok(Undefined)

\* The lookup without its catch block: what the try block throws escapes
configureProductLookupResultUncaught(answer) ==
  configureProductLookupTry(answer)

\* configureProduct, from the await of its lookup to the end of the inner
\* try/catch (lines 179-192): the answer is logged, and whatever the try
\* block throws is caught and logged
configureProductLookupResult(answer) ==
  LET tried == configureProductLookupTry(answer)
  IN IF tried.thrown THEN Ok(Undefined) ELSE tried

(***************************************************************************)
(* server.js: the input schemas of the six tools                           *)
(***************************************************************************)
zString(x) == x.t = "str"

zNumber(x) == x.t = "num"

zBoolean(x) == x.t = "bool"

\* z.string().email(): something@domain.tld
zEmail(x) ==
  /\ x.t = "str"
  /\ \E a \in 2..Len(x.v) :
       /\ SubSeq(x.v, a, a) = "@"
       /\ \A j \in 1..Len(x.v) : SubSeq(x.v, j, j) = "@" => j = a
       /\ \E d \in (a+2)..(Len(x.v)-1) : SubSeq(x.v, d, d) = "."

\* z.string().length(2)
zLanguage(x) == zString(x) /\ Len(x.v) = 2

\* .optional()
zOptional(P(_), x) == x.t = "undefined" \/ P(x)

\* z.array(P)
zArray(P(_), x) == x.t = "list" /\ \A i \in 1..Len(x.v) : P(x.v[i])

\* Lines 25-37
AddressSchema(x) ==
  /\ x.t = "obj"
  /\ zOptional(zString, Prop(x, "address_company_name"))
  /\ zString(Prop(x, "address_first_name"))
  /\ zString(Prop(x, "address_last_name"))
  /\ zString(Prop(x, "address_street"))
  /\ zString(Prop(x, "address_house_number"))
  /\ zOptional(zString, Prop(x, "address_addition"))
  /\ zString(Prop(x, "address_postal_code"))
  /\ zString(Prop(x, "address_city"))
  /\ zString(Prop(x, "address_country"))
  /\ zOptional(zString, Prop(x, "address_telephone_number"))
  /\ zOptional(zEmail, Prop(x, "address_email"))

\* Lines 39-42
ProductOptionSchema(x) ==
  /\ x.t = "obj"
  /\ zString(Prop(x, "code"))
  /\ Prop(x, "value").t \in {"str", "num", "bool"}

\* Lines 85-90
searchProductsSchema(args) ==
  /\ args.t = "obj"
  /\ zOptional(zString, Prop(args, "query"))
  /\ zOptional(zLanguage, Prop(args, "language"))
  /\ zOptional(zNumber, Prop(args, "page"))
  /\ zOptional(zNumber, Prop(args, "per_page"))

\* Lines 121-126
configureProductSchema(args) ==
  /\ args.t = "obj"
  /\ zString(Prop(args, "productCode"))
  /\ zOptional(LAMBDA x : zArray(ProductOptionSchema, x), Prop(args, "options"))
  /\ zOptional(AddressSchema, Prop(args, "address"))
  /\ zOptional(zLanguage, Prop(args, "language"))

\* Lines 152-155
configurationSchema(x) ==
  /\ x.t = "obj"
  /\ Prop(x, "products").t = "list"
  /\ zOptional(zString, Prop(x, "language"))

\* Lines 159-166
additionalOptionsSchema(x) ==
  /\ x.t = "obj"
  /\ zOptional(zString, Prop(x, "orderId"))
  /\ zOptional(zEmail, Prop(x, "contactEmail"))
  /\ zOptional(LAMBDA u : zString(u) \/ zArray(zString, u), Prop(x, "callbackUrl"))
  /\ zOptional(LAMBDA u : zEmail(u) \/ zArray(zEmail, u), Prop(x, "errorEmails"))
  /\ zOptional(zString, Prop(x, "shippingMethodPreset"))
  /\ zOptional(zString, Prop(x, "deliveryDatePreset"))

\* Lines 151-167
placeOrderSchema(args) ==
  /\ args.t = "obj"
  /\ configurationSchema(Prop(args, "configuration"))
  /\ AddressSchema(Prop(args, "address"))
  /\ zString(Prop(args, "reference"))
  /\ zOptional(zBoolean, Prop(args, "isTest"))
  /\ zOptional(additionalOptionsSchema, Prop(args, "additionalOptions"))

\* Lines 192-194
getOrderStatusSchema(args) ==
  /\ args.t = "obj"
  /\ zArray(zString, Prop(args, "orderIds"))

\* Lines 220-227
filtersSchema(x) ==
  /\ x.t = "obj"
  /\ zOptional(zNumber, Prop(x, "page"))
  /\ zOptional(zNumber, Prop(x, "per_page"))
  /\ zOptional(zString, Prop(x, "status"))
  /\ zOptional(zString, Prop(x, "customer_order_id"))
  /\ zOptional(zString, Prop(x, "order_date_from"))
  /\ zOptional(zString, Prop(x, "order_date_to"))

\* Lines 219-228
getAllOrdersSchema(args) ==
  /\ args.t = "obj"
  /\ zOptional(filtersSchema, Prop(args, "filters"))

\* cancelOrderSchema with orderId left unchecked (z.any())
cancelOrderSchemaAnyId(args) == args.t = "obj"

\* Lines 253-255
cancelOrderSchema(args) ==
  /\ args.t = "obj"
  /\ zString(Prop(args, "orderId"))

Tools ==
  {"searchProducts", "configureProduct", "placeOrder", "getOrderStatus",
   "getAllOrders", "cancelOrder"}

\* The schema each tool is registered with (server.tool(name, schema, handler))
ToolSchema(tool, args) ==
  CASE tool = "searchProducts" -> searchProductsSchema(args)
    [] tool = "configureProduct" -> configureProductSchema(args)
    [] tool = "placeOrder" -> placeOrderSchema(args)
    [] tool = "getOrderStatus" -> getOrderStatusSchema(args)
    [] tool = "getAllOrders" -> getAllOrdersSchema(args)
    [] tool = "cancelOrder" -> cancelOrderSchema(args)

(***************************************************************************)
(* server.js: formatResult and the six tool handlers                       *)
(***************************************************************************)
\* formatResult with the data converted by String() in place of
\* JSON.stringify
formatResultToString(message, data, isError) ==
  LET error == Prop(data, "error")
      formattedData ==
        IF isError /\ Truthy(error) /\ error.t = "error" /\ Truthy(Prop(error, "data"))
        THEN Obj(<< <<"error", Prop(error, "message")>>,
                    <<"details", Prop(error, "data")>> >>)
        ELSE data
  IN [content |->
        << [type |-> "text", text |-> Str(message)],
           [type |-> "text", text |-> Str(ToStr(formattedData))] >>,
      isError |-> isError]

\* Lines 51-75; the text of the second item is undefined when
\* JSON.stringify is given undefined
formatResult(message, data, isError) ==
  LET error == Prop(data, "error")
      formattedData ==
        IF isError /\ Truthy(error) /\ error.t = "error" /\ Truthy(Prop(error, "data"))
        THEN Obj(<< <<"error", Prop(error, "message")>>,
                    <<"details", Prop(error, "data")>> >>)
        ELSE data
  IN [content |->
        << [type |-> "text", text |-> Str(message)],
           [type |-> "text",
            text |-> IF formattedData.t = "undefined" THEN Undefined
                     ELSE Str(JSONstringify2(formattedData))] >>,
      isError |-> isError]

\* x?.k
OptProp(x, k) == IF Nullish(x) THEN Undefined ELSE Prop(x, k)

\* result.k of a handler's try block: a TypeError when result is null or
\* undefined
ReadResult(result, k, message(_)) ==
  IF Nullish(result) THEN Throw(TypeErrorRead(result, k))
  ELSE Ok(formatResult(message(Prop(result, k)), result, FALSE))

\* The part of each handler's try block that follows its await: the
\* summary and formatResult (lines 100-103, 130-133, 171-174, 198-201,
\* 232-235, 259-262)
ToolTry(tool, args, result) ==
  CASE tool = "searchProducts" ->
         ReadResult(result, "products",
           LAMBDA p : "Found " \o ToStr(OrElse(OptProp(p, "length"), Num(0)))
                      \o " products")
    [] tool = "configureProduct" ->
         Ok(formatResult("Product " \o ToStr(Prop(args, "productCode"))
                         \o " configured successfully", result, FALSE))
    [] tool = "placeOrder" ->
         ReadResult(result, "order",
           LAMBDA o : "Order placed successfully: "
                      \o ToStr(OrElse(OptProp(o, "id"), Str("ID not available"))))
    [] tool = "getOrderStatus" ->
         ReadResult(result, "orders",
           LAMBDA o : "Retrieved status for "
                      \o ToStr(OrElse(OptProp(o, "length"), Num(0))) \o " orders")
    [] tool = "getAllOrders" ->
         ReadResult(result, "orders",
           LAMBDA o : "Retrieved " \o ToStr(OrElse(OptProp(o, "length"), Num(0)))
                      \o " orders")
    [] tool = "cancelOrder" ->
         ReadResult(result, "status",
           LAMBDA st : "Order " \o ToStr(Prop(args, "orderId"))
                       \o " cancellation result: " \o ToStr(st))

\* error instanceof Error ? error.message : String(error)
errorMessageOf(error) ==
  IF error.t = "error" THEN ToStr(Prop(error, "message")) ELSE ToStr(error)

\* The catch block of each handler (lines 104-111, 134-141, 175-182,
\* 202-209, 236-243, 263-270)
ToolCatch(tool, error) ==
  IF tool = "placeOrder"
  THEN Ok(formatResult("Error: " \o ToStr(Prop(error, "message")),
                       Obj(<< <<"error", error>> >>), TRUE))
  ELSE Ok(formatResult("Error: " \o errorMessageOf(error),
                       Obj(<< <<"error", Str(errorMessageOf(error))>> >>), TRUE))

\* ToolFinish with the summary computed outside the try block: only the
\* failure of the operation is caught
ToolFinishSummaryOutsideTry(tool, args, outcome) ==
  IF outcome.thrown THEN ToolCatch(tool, outcome.error)
  ELSE ToolTry(tool, args, outcome.value)

\* A handler from the outcome of its operation on: try { ... } catch
ToolFinish(tool, args, outcome) ==
  With(IF outcome.thrown THEN outcome ELSE ToolTry(tool, args, outcome.value),
       LAMBDA tried : IF tried.thrown THEN ToolCatch(tool, tried.error)
                      ELSE tried)

\* A handler up to the await of its operation: the request the operation
\* sends, or what building it throws
ToolRequest(tool, args, clock) ==
  CASE tool = "searchProducts" ->
         getProductsRequest(
           Prop(args, "query"),
           Obj(<< <<"page", OrElse(Prop(args, "page"), Num(1))>>,
                  <<"per_page", OrElse(Prop(args, "per_page"), Num(20))>> >>))
    [] tool = "configureProduct" ->
         configureProductRequest(Prop(args, "productCode"),
                                 OrElse(Prop(args, "options"), List(<<>>)),
                                 Prop(args, "address"), Prop(args, "language"))
    [] tool = "placeOrder" ->
         placeOrderRequest(Prop(args, "configuration"), Prop(args, "address"),
                           Prop(args, "reference"), Prop(args, "isTest"),
                           OrElse(Prop(args, "additionalOptions"), Obj(<<>>)),
                           clock)
    [] tool = "getOrderStatus" -> getOrderStatusRequest(Prop(args, "orderIds"))
    [] tool = "getAllOrders" ->
         getAllOrdersRequest(OrElse(Prop(args, "filters"), Obj(<<>>)))
    [] tool = "cancelOrder" -> cancelOrderRequest(Prop(args, "orderId"))

\* The operation of a tool from the transport's answer on
OperationResult(tool, answer) ==
  CASE tool = "searchProducts" -> getProductsResult(answer)
    [] tool = "configureProduct" -> PassThrough(answer, "Failed to configure product")
    [] tool = "placeOrder" -> PassThrough(answer, "Failed to place order")
    [] tool = "getOrderStatus" -> PassThrough(answer, "Failed to get order status")
    [] tool = "getAllOrders" -> PassThrough(answer, "Failed to get orders")
    [] tool = "cancelOrder" -> PassThrough(answer, "Failed to cancel order")

(***************************************************************************)
(* The caller: JSON.parse of the second text item (test.js, lines 28-39)   *)
(* A parse yields [ok, val, pos]: whether a value was read, the value, and *)
(* the position that follows it                                            *)
(***************************************************************************)
\* The character of s at position k ("" outside s)
Ch(s, k) == IF k \in 1..Len(s) THEN SubSeq(s, k, k) ELSE ""

Digits == {"0", "1", "2", "3", "4", "5", "6", "7", "8", "9"}

\* The first position from p on where s does not hold a character of set
ScanWhile(s, p, set) ==
  CHOOSE k \in p..(Len(s) + 1) :
    /\ Ch(s, k) \notin set
    /\ \A j \in p..(k-1) : Ch(s, j) \in set

SkipWs(s, p) == ScanWhile(s, p, {" ", "\n"})

\* The number of backslashes in a row that end at position k of s
BackslashRun(s, k) ==
  LET others == {j \in 1..k : Ch(s, j) # "\\"}
      last == IF others = {} THEN 0
              ELSE CHOOSE j \in others : \A m \in others : m <= j
  IN k - last

\* The inverse of Quote (the string is halved where no escape is cut)
RECURSIVE Unquote(_)
Unquote(s) ==
  IF Len(s) <= 1 THEN s
  ELSE IF Len(s) = 2
       THEN IF s = "\\n" THEN "\n"
            ELSE IF s = "\\\"" THEN "\""
            ELSE IF s = "\\\\" THEN "\\"
            ELSE s
       ELSE LET half == Len(s) \div 2
                h == IF BackslashRun(s, half) % 2 = 0 THEN half ELSE half + 1
            IN Unquote(SubSeq(s, 1, h)) \o Unquote(SubSeq(s, h + 1, Len(s)))

NoParse == [ok |-> FALSE, val |-> Undefined, pos |-> 0]

Parsed(val, pos) == [ok |-> TRUE, val |-> val, pos |-> pos]

\* A string literal that opens at position p
ParseString(s, p) ==
  LET closing == {k \in (p+1)..Len(s) :
                    Ch(s, k) = "\"" /\ BackslashRun(s, k - 1) % 2 = 0}
  IN IF Ch(s, p) # "\"" \/ closing = {} THEN NoParse
     ELSE LET q == CHOOSE k \in closing : \A m \in closing : k <= m
          IN Parsed(Str(Unquote(SubSeq(s, p + 1, q - 1))), q + 1)

DigitValue(c) ==
  CASE c = "0" -> 0 [] c = "1" -> 1 [] c = "2" -> 2 [] c = "3" -> 3
    [] c = "4" -> 4 [] c = "5" -> 5 [] c = "6" -> 6 [] c = "7" -> 7
    [] c = "8" -> 8 [] c = "9" -> 9

\* An integer literal at position p
ParseNumber(s, p) ==
  LET from == IF Ch(s, p) = "-" THEN p + 1 ELSE p
      to == ScanWhile(s, from, Digits)
      V[k \in (from-1)..(to-1)] ==
        IF k < from THEN 0 ELSE 10 * V[k-1] + DigitValue(Ch(s, k))
  IN IF to = from THEN NoParse
     ELSE Parsed(Num(IF from = p THEN V[to-1] ELSE 0 - V[to-1]), to)

AtWord(s, p, w) == SubSeq(s, p, p + Len(w) - 1) = w

\* A value at position p; ParseItems reads what follows "[" or a comma of
\* an array, ParseMembers what follows "{" or a comma of an object
RECURSIVE ParseValue(_, _), ParseItems(_, _, _), ParseMembers(_, _, _)
ParseValue(s, p) ==
  LET c == Ch(s, p)
  IN CASE c = "\"" -> ParseString(s, p)
       [] c = "[" ->
            IF Ch(s, SkipWs(s, p + 1)) = "]"
            THEN Parsed(List(<<>>), SkipWs(s, p + 1) + 1)
            ELSE ParseItems(s, p + 1, <<>>)
       [] c = "{" ->
            IF Ch(s, SkipWs(s, p + 1)) = "}"
            THEN Parsed(Obj(<<>>), SkipWs(s, p + 1) + 1)
            ELSE ParseMembers(s, p + 1, <<>>)
       [] c = "-" \/ c \in Digits -> ParseNumber(s, p)
       [] c = "t" /\ p + 3 <= Len(s) /\ AtWord(s, p, "true") -> Parsed(Bool(TRUE), p + 4)
       [] c = "f" /\ p + 4 <= Len(s) /\ AtWord(s, p, "false") -> Parsed(Bool(FALSE), p + 5)
       [] c = "n" /\ p + 3 <= Len(s) /\ AtWord(s, p, "null") -> Parsed(Null, p + 4)
       [] OTHER -> NoParse

ParseItems(s, p, acc) ==
  LET item == ParseValue(s, SkipWs(s, p))
      next == SkipWs(s, item.pos)
  IN IF ~item.ok THEN NoParse
     ELSE IF Ch(s, next) = "," THEN ParseItems(s, next + 1, Append(acc, item.val))
     ELSE IF Ch(s, next) = "]" THEN Parsed(List(Append(acc, item.val)), next + 1)
     ELSE NoParse

ParseMembers(s, p, acc) ==
  LET key == ParseString(s, SkipWs(s, p))
      colon == SkipWs(s, key.pos)
      member == ParseValue(s, SkipWs(s, colon + 1))
      next == SkipWs(s, member.pos)
      all == Append(acc, <<key.val.v, member.val>>)
  IN IF ~key.ok \/ Ch(s, colon) # ":" THEN NoParse
     ELSE IF ~member.ok THEN NoParse
     ELSE IF Ch(s, next) = "," THEN ParseMembers(s, next + 1, all)
     ELSE IF Ch(s, next) = "}" THEN Parsed(Obj(all), next + 1)
     ELSE NoParse

\* JSON.parse(text): the value, or a SyntaxError
JSONparse(text) ==
  LET s == ToStr(text)
      v == ParseValue(s, SkipWs(s, 1))
  IN IF v.ok /\ SkipWs(s, v.pos) = Len(s) + 1 THEN Ok(v.val)
     ELSE Throw(ErrorValue("SyntaxError", "Unexpected token in JSON", <<>>,
                           Undefined, Undefined))

(***************************************************************************)
(* The transport (axios): what await client.get/post yields                *)
(***************************************************************************)
\* A 2xx response with the body parsed
Response(status, body) ==
  Ok(Obj(<< <<"status", Num(status)>>, <<"data", body>> >>))

\* A response outside 2xx: the transport rejects, with the response attached
HttpError(status, body) ==
  Throw(ErrorValue("AxiosError",
                   "Request failed with status code " \o ToString(status), <<>>,
                   Obj(<< <<"status", Num(status)>>, <<"data", body>> >>),
                   Obj(<<>>)))

\* The request was sent and no response arrived
NoResponse ==
  Throw(ErrorValue("AxiosError", "Network Error", <<>>, Undefined, Obj(<<>>)))

\* The request could not be set up
SetupError ==
  Throw(ErrorValue("Error", "Invalid URL", <<>>, Undefined, Undefined))

(***************************************************************************)
(* Bounds and input domains                                                *)
(***************************************************************************)
\* Tool invocations in one run
MaxInv == 2

\* Ticks of the millisecond clock in one run
MaxClock == 1

Invs == 1..MaxInv

Address ==
  Obj(<< <<"address_first_name", Str("John")>>,
         <<"address_last_name", Str("Doe")>>,
         <<"address_street", Str("Test Street")>>,
         <<"address_house_number", Str("123")>>,
         <<"address_postal_code", Str("1234AB")>>,
         <<"address_city", Str("Test City")>>,
         <<"address_country", Str("NL")>> >>)

AddressWithEmail ==
  Obj(Address.v \o << <<"address_email", Str("test@example.com")>> >>)

\* placeOrder arguments: the three required ones, then extra
OrderArgs(products, address, extra) ==
  Obj(<< <<"configuration", Obj(<< <<"products", List(products)>> >>)>>,
         <<"address", address>>,
         <<"reference", Str("ref 1")>> >> \o extra)

Banner == Obj(<< <<"code", Str("banner")>> >>)

\* Arguments that conform to the schema of their tool
SmallArgs(tool) ==
  CASE tool = "searchProducts" ->
         {Obj(<<>>), Obj(<< <<"query", Str("flag x")>>, <<"page", Num(2)>> >>)}
    [] tool = "configureProduct" -> {Obj(<< <<"productCode", Str("flag x")>> >>)}
    [] tool = "placeOrder" ->
         {OrderArgs(<<Banner>>, Address, <<>>), OrderArgs(<<Null>>, Address, <<>>)}
    [] tool = "getOrderStatus" ->
         {Obj(<< <<"orderIds", List(<<Str("o1"), Str("o2")>>)>> >>)}
    [] tool = "getAllOrders" ->
         {Obj(<<>>),
          Obj(<< <<"filters", Obj(<< <<"page", Num(1)>>,
                                     <<"status", Str("in production")>> >>)>> >>)}
    [] tool = "cancelOrder" -> {Obj(<< <<"orderId", Str("o1")>> >>)}

\* Arguments that do not conform: a required field missing, a field of the
\* wrong type, a constraint broken
InvalidArgs(tool) ==
  CASE tool = "searchProducts" -> {Obj(<< <<"language", Str("eng")>> >>)}
    [] tool = "configureProduct" -> {Obj(<<>>)}
    [] tool = "placeOrder" ->
         {OrderArgs(<<Banner>>, Address, << <<"isTest", Str("yes")>> >>)}
    [] tool = "getOrderStatus" -> {Obj(<< <<"orderIds", Str("o1")>> >>)}
    [] tool = "getAllOrders" ->
         {Obj(<< <<"filters", Obj(<< <<"page", Str("1")>> >>)>> >>)}
    [] tool = "cancelOrder" -> {Obj(<< <<"orderId", Num(7)>> >>)}

\* A body that answers every tool
GoodBody ==
  Obj(<< <<"status", Str("cancelled")>>,
         <<"order", Obj(<< <<"id", Str("o1")>> >>)>>,
         <<"orders", List(<<Obj(<< <<"id", Str("o1")>> >>)>>)>>,
         <<"data", List(<<Obj(<< <<"code", Str("x")>> >>)>>)>>,
         <<"meta", Obj(<< <<"total", Num(1)>> >>)>> >>)

NotFound == Obj(<< <<"message", Str("Order not found")>> >>)

SmallAnswers ==
  {Response(200, GoodBody), Response(200, Null), HttpError(404, NotFound),
   NoResponse, SetupError}

SmallModes == {Undefined, Str("production")}

\* A key that is left out when its value is undefined
Opt(k, x) == IF x.t = "undefined" THEN <<>> ELSE << <<k, x>> >>

\* The sequences over S of length at most n
SeqsUpTo(S, n) == UNION {[1..k -> S] : k \in 0..n}

\* Concurrent runs: one call per tool, placeOrder with and without an id
ConcArgs(tool) ==
  CASE tool = "searchProducts" -> {Obj(<<>>)}
    [] tool = "configureProduct" -> {Obj(<< <<"productCode", Str("flag x")>> >>)}
    [] tool = "placeOrder" ->
         {OrderArgs(<<Banner>>, Address, <<>>),
          OrderArgs(<<Banner>>, Address,
                    << <<"additionalOptions", Obj(<< <<"orderId", Str("o1")>> >>)>> >>)}
    [] tool = "getOrderStatus" ->
         {Obj(<< <<"orderIds", List(<<Str("o1"), Str("o2")>>)>> >>)}
    [] tool = "getAllOrders" -> {Obj(<<>>)}
    [] tool = "cancelOrder" -> {Obj(<< <<"orderId", Str("o1")>> >>)}

\* The builders: the calls of ConcArgs, a placeOrder that gives isTest and
\* an orderId, and calls that give a language
BuildArgs(tool) ==
  ConcArgs(tool) \cup
  (CASE tool = "searchProducts" -> {Obj(<< <<"language", Str("nl")>> >>)}
     [] tool = "placeOrder" ->
          {OrderArgs(<<Banner>>, Address,
                     << <<"isTest", Bool(FALSE)>>,
                        <<"additionalOptions", Obj(<< <<"orderId", Str("o1")>> >>)>> >>),
           Obj(<< <<"configuration",
                    Obj(<< <<"products", List(<<Banner>>)>>,
                           <<"language", Str("nl")>> >>)>>,
                  <<"address", Address>>,
                  <<"reference", Str("ref 1")>> >>)}
     [] OTHER -> {})

\* The answers to the product lookup: products found, none found, bodies
\* the lookup cannot read, and failures
LookupAnswers ==
  {Response(200, GoodBody),
   Response(200, Obj(<< <<"data", List(<<>>)>> >>)),
   Response(200, Obj(<< <<"data", List(<<Null>>)>> >>)),
   Response(200, Null),
   HttpError(404, NotFound), NoResponse, SetupError}

ConcAnswers == {Response(200, GoodBody), HttpError(404, NotFound)}

\* placeOrder: the mode, the isTest flag and the additional options
OrderModes == {Undefined, Str(""), Str("test"), Str("production"), Str("TEST")}

AdditionalOptionsDomain ==
  {Undefined} \cup
  {Obj(Opt("orderId", orderId) \o Opt("contactEmail", contactEmail)
       \o Opt("callbackUrl", callbackUrl) \o Opt("errorEmails", errorEmails)) :
     orderId \in {Undefined, Str("o1")},
     contactEmail \in {Undefined, Str("contact@example.com")},
     callbackUrl \in {Undefined, Str(""), Str("https://cb.example.com/a"),
                      List(<<>>), List(<<Str("https://a"), Str("https://b")>>)},
     errorEmails \in {Undefined, Str("ops@example.com"), List(<<>>),
                      List(<<Str("a@example.com"), Str("b@example.com")>>)}}

OrderDomain ==
  {OrderArgs(<<Banner>>, address,
             Opt("isTest", isTest) \o Opt("additionalOptions", additionalOptions)) :
     address \in {Address, AddressWithEmail},
     isTest \in {Undefined, Bool(TRUE), Bool(FALSE)},
     additionalOptions \in AdditionalOptionsDomain}

\* placeOrder: the products of the configuration
MaxProducts == 1

Option(code, value) == Obj(<< <<"code", Str(code)>>, <<"value", value>> >>)

File(uri) == Obj(<< <<"uri", Str(uri)>>, <<"fill", Bool(FALSE)>> >>)

ProductDomain ==
  {Null, Obj(<< <<"customer_code", Str("c-1")>>, <<"uploader", Str("up")>>,
                <<"uploaders", List(<<Str("up")>>)>> >>)} \cup
  {Obj(<< <<"code", Str("banner")>> >> \o Opt("options", options)
       \o Opt("files", files)) :
     options \in {Undefined, List(<<>>), List(<<Option("width", Num(200))>>)},
     files \in {Undefined, List(<<>>), List(<<File("https://files/a.pdf")>>)}}

ProductsDomain ==
  {OrderArgs(products, Address, <<>>) : products \in SeqsUpTo(ProductDomain, MaxProducts)}

\* configureProduct: the options
MaxOpts == 2

OptionDomain ==
  {Option("width", Num(500)), Option("width_mm", Num(500)),
   Option("height", Str("2")), Option("height_mm", Num(3)),
   Option("color", Str("red"))}

ConfigureDomain ==
  {Obj(<< <<"productCode", Str("flag")>> >> \o Opt("options", options)
       \o Opt("address", address) \o Opt("language", language)) :
     options \in {Undefined} \cup {List(o) : o \in SeqsUpTo(OptionDomain, MaxOpts)},
     address \in {Undefined, Address},
     language \in {Undefined, Str("nl")}}

\* The failures of the transport: the responses outside 2xx, and none
ErrorBodies ==
  {Str(""), Null, Num(0), Bool(FALSE), Str("Not Found"), NotFound,
   Obj(<< <<"message", Str("")>> >>), Obj(<< <<"error", Str("denied")>> >>),
   List(<<Str("e")>>),
   Obj(<< <<"errors", Str("a\na\nb")>> >>),
   Obj(<< <<"message", Str("Invalid")>>,
          <<"errors", List(<<Str("x"), Str("x")>>)>> >>)}

ErrorStatuses == {400, 404, 500}

ErrorAnswers ==
  {HttpError(s, b) : s \in ErrorStatuses, b \in ErrorBodies}
  \cup {NoResponse, SetupError}

\* The validation errors of a 400: up to MaxErrors of them
MaxErrors == 12

\* e1, ..., en
ErrorNames(n) == [k \in 1..n |-> "e" \o ToString(k)]

\* Each element twice in a row
Doubled(xs) == [k \in 1..(2 * Len(xs)) |-> xs[(k + 1) \div 2]]

StrList(xs) == List([k \in 1..Len(xs) |-> Str(xs[k])])

\* Bodies with an errors field: a newline-delimited string (with and
\* without repeated lines), a list (with and without repeated entries),
\* with and without a message, and an object
ValidationBodies ==
  {Obj(<< <<"errors", Str(JoinStr(ErrorNames(n), "\n"))>> >>) : n \in 0..MaxErrors}
  \cup {Obj(<< <<"errors", Str(JoinStr(Doubled(ErrorNames(n)), "\n"))>> >>) :
          n \in 1..MaxErrors}
  \cup {Obj(<< <<"errors", StrList(ErrorNames(n))>> >>) : n \in 0..MaxErrors}
  \cup {Obj(<< <<"errors", Str("a\na\nb")>> >>),
        Obj(<< <<"errors", Str("b\na\nb\na")>> >>),
        Obj(<< <<"message", Str("Invalid")>>, <<"errors", Str("a\n\nb\n")>> >>),
        Obj(<< <<"message", Str("Invalid")>>,
               <<"errors", StrList(<<"x", "x", "y", "x">>)>> >>),
        Obj(<< <<"errors", Obj(<< <<"width", Str("too small")>> >>)>> >>)}

ValidationStatuses == {400, 422}

ValidationAnswers ==
  {HttpError(s, b) : s \in ValidationStatuses, b \in ValidationBodies}

\* The bodies of a 2xx answer: JSON values of every type for the five
\* operations that pass the body on, and product pages for getProducts
Products == List(<<Obj(<< <<"code", Str("x")>> >>)>>)

Meta == Obj(<< <<"total", Num(1)>> >>)

SuccessBodies ==
  {GoodBody, Null, Str("ok"), Str(""), Num(0), Num(7), Bool(TRUE), List(<<>>),
   List(<<Str("o1"), Null>>), Obj(<<>>),
   Obj(<< <<"status", Str("cancelled")>> >>),
   Obj(<< <<"order", Null>> >>),
   Obj(<< <<"data", Products>>, <<"meta", Meta>> >>),
   Obj(<< <<"data", List(<<>>)>>, <<"meta", Obj(<<>>)>> >>),
   Obj(<< <<"data", Products>> >>),
   Obj(<< <<"meta", Meta>> >>),
   Obj(<< <<"data", Products>>, <<"meta", Meta>>,
          <<"links", Obj(<< <<"next", Null>> >>)>> >>)}

SuccessStatuses == {200, 201}

SuccessAnswers ==
  {Response(s, b) : s \in SuccessStatuses, b \in SuccessBodies}
  \cup {HttpError(404, NotFound)}

(***************************************************************************)
(* The state machine: one process per tool invocation                      *)
(***************************************************************************)
\* An invocation: where it stands (pc), the tool and its arguments, the
\* requests it sent, the transport's answer to the first one, the failure
\* configureProduct keeps while it looks the product up (error), what the
\* operation of proboClient.js yielded (op) and what the caller was handed
Idle ==
  [pc |-> "idle", tool |-> "none", args |-> Undefined, sent |-> <<>>,
   answer |-> Ok(Undefined), error |-> Undefined, lookup |-> Ok(Undefined),
   op |-> Ok(Undefined),
   result |-> [kind |-> "none", value |-> Undefined]]

InitWith(modes) ==
  /\ env \in [PROBO_API_KEY : {Str("key")}, PROBO_API_URL : {Undefined},
              PROBO_API_MODE : modes]
  /\ now = 0
  /\ inv = [i \in Invs |-> Idle]

\* The protocol layer receives a call of a tool registered with
\* server.tool(name, schema, handler): arguments that fail the schema are
\* answered with an invalid-params error and the handler is not run
CallTool(i, tool, args) ==
  /\ ServerRunning
  /\ inv[i].pc = "idle"
  /\ \A j \in 1..(i-1) : inv[j].pc # "idle"
  /\ inv' = [inv EXCEPT ![i] =
       IF ToolSchema(tool, args)
       THEN [@ EXCEPT !.pc = "accepted", !.tool = tool, !.args = args]
       ELSE [@ EXCEPT !.pc = "rejected", !.tool = tool, !.args = args,
                      !.result = [kind |-> "invalid_params",
                                  value |-> Str("Invalid arguments for tool " \o tool)]]]
  /\ UNCHANGED <<env, now>>

\* What the handler hands back: an envelope, or an exception that escapes it
Finished(r, outcome) ==
  With(outcome, LAMBDA out :
    IF out.thrown
    THEN [r EXCEPT !.pc = "escaped",
                   !.result = [kind |-> "exception", value |-> out.error]]
    ELSE [r EXCEPT !.pc = "returned",
                   !.result = [kind |-> "envelope", value |-> out.value]])

\* Start with a timeout of the request: the handler returns a failure
\* without an answer of the transport
StartWithTimeout(i) ==
  /\ inv[i].pc = "accepted"
  /\ LET r == inv[i]
         req == ToolRequest(r.tool, r.args, now)
         timeout == Str("timeout of 1000ms exceeded")
     IN inv' = [inv EXCEPT ![i] =
          IF req.thrown
          THEN Finished([r EXCEPT !.op = req], ToolFinish(r.tool, r.args, req))
          ELSE Finished([r EXCEPT !.sent = <<req.value>>],
                        Ok(formatResult("Error: " \o timeout.v,
                                        Obj(<< <<"error", timeout>> >>), TRUE)))]
  /\ UNCHANGED <<env, now>>

\* The handler runs up to the await of its request (r and req name the
\* values of the invocation and of what building its request gives)
Start(i) ==
  /\ inv[i].pc = "accepted"
  /\ \E r \in {inv[i]} :
       \E req \in {ToolRequest(r.tool, r.args, now)} :
         inv' = [inv EXCEPT ![i] =
           IF req.thrown
           THEN Finished([r EXCEPT !.op = req], ToolFinish(r.tool, r.args, req))
           ELSE [r EXCEPT !.pc = "awaiting", !.sent = <<req.value>>]]
  /\ UNCHANGED <<env, now>>

\* The transport answers the request and the handler runs on: to its end,
\* or, for a failed configureProduct, to the await of its product lookup
Respond(i, answer) ==
  /\ inv[i].pc = "awaiting"
  /\ \E r \in {inv[i]} :
       IF r.tool = "configureProduct" /\ answer.thrown
       THEN inv' = [inv EXCEPT ![i] =
              [r EXCEPT !.pc = "lookup", !.answer = answer,
                        !.error = answer.error,
                        !.sent = Append(@, configureProductLookup(
                                             Prop(r.args, "productCode")))]]
       ELSE \E op \in {OperationResult(r.tool, answer)} :
              inv' = [inv EXCEPT ![i] =
                Finished([r EXCEPT !.answer = answer, !.op = op],
                         ToolFinish(r.tool, r.args, op))]
  /\ UNCHANGED <<env, now>>

\* The transport answers the product lookup of a failed configureProduct:
\* the inner try/catch runs (lines 179-192), and then the failure of the
\* POST is normalized (line 194)
RespondLookup(i, answer) ==
  /\ inv[i].pc = "lookup"
  /\ \E r \in {inv[i]} :
       \E looked \in {configureProductLookupResult(answer)} :
         \E op \in {IF looked.thrown THEN looked
                    ELSE OperationResult(r.tool, Throw(r.error))} :
           inv' = [inv EXCEPT ![i] =
             Finished([r EXCEPT !.lookup = answer, !.op = op],
                      ToolFinish(r.tool, r.args, op))]
  /\ UNCHANGED <<env, now>>

\* A millisecond passes
Tick ==
  /\ now < MaxClock
  /\ now' = now + 1
  /\ UNCHANGED <<env, inv>>

\* Concurrent invocations of the six tools
Init == InitWith({Undefined})

Next ==
  \/ \E i \in Invs, tool \in Tools :
       \E args \in ConcArgs(tool) : CallTool(i, tool, args)
  \/ \E i \in Invs : Start(i)
  \/ \E i \in Invs, answer \in ConcAnswers : Respond(i, answer)
  \/ \E i \in Invs, answer \in ConcAnswers : RespondLookup(i, answer)
  \/ Tick

Spec == Init /\ [][Next]_vars

\* One invocation of any tool, with arguments that conform or not, and
\* every kind of answer
InitTools == InitWith(SmallModes)

NextTools ==
  \/ \E tool \in Tools :
       \E args \in SmallArgs(tool) \cup InvalidArgs(tool) : CallTool(1, tool, args)
  \/ Start(1)
  \/ \E answer \in SmallAnswers : Respond(1, answer)
  \/ \E answer \in SmallAnswers : RespondLookup(1, answer)
  \/ Tick

SpecTools == InitTools /\ [][NextTools]_vars

\* One placeOrder, over the modes, isTest and the additional options
InitOrder == InitWith(OrderModes)

NextOrder ==
  \/ \E args \in OrderDomain : CallTool(1, "placeOrder", args)
  \/ Start(1)
  \/ \E answer \in ConcAnswers : Respond(1, answer)
  \/ Tick

SpecOrder == InitOrder /\ [][NextOrder]_vars

\* One placeOrder, over the products of its configuration
InitProducts == InitWith(SmallModes)

NextProducts ==
  \/ \E args \in ProductsDomain : CallTool(1, "placeOrder", args)
  \/ Start(1)
  \/ \E answer \in ConcAnswers : Respond(1, answer)
  \/ Tick

SpecProducts == InitProducts /\ [][NextProducts]_vars

\* One configureProduct, over its options
InitConfigure == InitWith({Undefined})

NextConfigure ==
  \/ \E args \in ConfigureDomain : CallTool(1, "configureProduct", args)
  \/ Start(1)
  \/ \E answer \in ConcAnswers : Respond(1, answer)
  \/ \E answer \in ConcAnswers : RespondLookup(1, answer)

SpecConfigure == InitConfigure /\ [][NextConfigure]_vars

\* One invocation of any tool whose request fails, over the failures
InitError == InitWith({Undefined})

NextError ==
  \/ \E tool \in Tools : \E args \in ConcArgs(tool) : CallTool(1, tool, args)
  \/ Start(1)
  \/ \E answer \in ErrorAnswers : Respond(1, answer)
  \/ \E answer \in ConcAnswers : RespondLookup(1, answer)

SpecError == InitError /\ [][NextError]_vars

\* One invocation of any tool whose request is refused with validation
\* errors
InitValidation == InitWith({Undefined})

NextValidation ==
  \/ \E tool \in Tools : \E args \in ConcArgs(tool) : CallTool(1, tool, args)
  \/ Start(1)
  \/ \E answer \in ValidationAnswers : Respond(1, answer)
  \/ \E answer \in ConcAnswers : RespondLookup(1, answer)

SpecValidation == InitValidation /\ [][NextValidation]_vars

\* One invocation of any tool whose request is answered 2xx, over the
\* bodies (and one failure, after which configureProduct looks its
\* product up)
InitSuccess == InitWith({Undefined})

NextSuccess ==
  \/ \E tool \in Tools : \E args \in ConcArgs(tool) : CallTool(1, tool, args)
  \/ Start(1)
  \/ \E answer \in SuccessAnswers : Respond(1, answer)
  \/ \E answer \in ConcAnswers : RespondLookup(1, answer)

SpecSuccess == InitSuccess /\ [][NextSuccess]_vars

\* The process with and without its key, then one invocation of any tool
StartupKeys == {Undefined, Str(""), Str("key")}

InitStartup ==
  /\ env \in [PROBO_API_KEY : StartupKeys, PROBO_API_URL : {Undefined},
              PROBO_API_MODE : SmallModes]
  /\ now = 0
  /\ inv = [i \in Invs |-> Idle]

NextStartup ==
  \/ \E tool \in Tools : \E args \in SmallArgs(tool) : CallTool(1, tool, args)
  \/ Start(1)
  \/ \E answer \in SmallAnswers : Respond(1, answer)
  \/ \E answer \in SmallAnswers : RespondLookup(1, answer)
  \/ Tick

SpecStartup == InitStartup /\ [][NextStartup]_vars

\* Concurrent invocations whose handlers run and whose requests are all
\* answered in the end
Fairness ==
  \A i \in Invs :
    /\ WF_vars(Start(i))
    /\ WF_vars(\E answer \in ConcAnswers : Respond(i, answer))
    /\ WF_vars(\E answer \in ConcAnswers : RespondLookup(i, answer))

SpecLive == Init /\ [][Next]_vars /\ Fairness

\* Concurrent invocations up to the await of their requests, under each
\* configured mode: what the builders make of the arguments
InitBuild == InitWith(SmallModes)

NextBuild ==
  \/ \E i \in Invs, tool \in Tools :
       \E args \in BuildArgs(tool) : CallTool(i, tool, args)
  \/ \E i \in Invs : Start(i)
  \/ Tick

SpecBuild == InitBuild /\ [][NextBuild]_vars

\* One configureProduct whose POST fails, over the failures, and its
\* product lookup, over the answers to it
InitLookup == InitWith({Undefined})

NextLookup ==
  \/ \E args \in ConcArgs("configureProduct") \cup SmallArgs("configureProduct") :
       CallTool(1, "configureProduct", args)
  \/ Start(1)
  \/ \E answer \in ErrorAnswers : Respond(1, answer)
  \/ \E answer \in LookupAnswers : RespondLookup(1, answer)

SpecLookup == InitLookup /\ [][NextLookup]_vars

(***************************************************************************)
(* Properties                                                              *)
(***************************************************************************)
Called(i) == inv[i].pc # "idle"

IsCall(i, tool) == inv[i].tool = tool /\ inv[i].sent # <<>>

\* The body of the first request of invocation i
Payload(i) == inv[i].sent[1].data

\* C1: a tool invoked with arguments that conform to its schema never lets
\* an exception out of its handler: no invocation ends with an exception,
\* an invocation under way has handed back nothing yet, and one that has
\* ended has handed back one result envelope, of two text items and the
\* isError flag, whatever the upstream answered and whatever failed while
\* the payload was built.
C1_EnvelopeAlways ==
  \A i \in Invs :
    /\ inv[i].pc # "escaped"
    /\ inv[i].result.kind # "exception"
    /\ inv[i].pc \in {"accepted", "awaiting", "lookup"} => inv[i].result.kind = "none"
    /\ inv[i].pc = "returned" =>
         /\ inv[i].result.kind = "envelope"
         /\ Len(inv[i].result.value.content) = 2
         /\ inv[i].result.value.isError \in BOOLEAN

\* placeOrder has returned an error envelope for a 2xx answer whose body is
\* null: the TypeError of its summary was caught
C1_Witness ==
  \E i \in Invs :
    /\ inv[i].pc = "returned"
    /\ IsCall(i, "placeOrder")
    /\ ~inv[i].answer.thrown
    /\ Prop(inv[i].answer.value, "data") = Null
    /\ inv[i].result.value.isError

\* C2: every tool invocation issues at most one outbound HTTP request.
C2_AtMostOneRequest == \A i \in Invs : Len(inv[i].sent) <= 1

\* C3: an invocation whose arguments do not conform to the schema of its
\* tool is rejected with an invalid-params failure and sends no request;
\* an invocation that sent a request, and so may report an upstream
\* failure, never ends with that failure.
C3_InvalidRejected ==
  \A i \in Invs :
    /\ (Called(i) /\ inv[i].args \in InvalidArgs(inv[i].tool)) =>
         /\ inv[i].pc = "rejected"
         /\ inv[i].sent = <<>>
         /\ inv[i].result.kind = "invalid_params"
    /\ inv[i].sent # <<>> => inv[i].result.kind # "invalid_params"

\* cancelOrder was called with a number for orderId and rejected
C3_Witness ==
  \E i \in Invs :
    /\ inv[i].tool = "cancelOrder"
    /\ Prop(inv[i].args, "orderId") = Num(7)
    /\ inv[i].pc = "rejected"

\* Whether placeOrder invocation i was given no additionalOptions.orderId
NoOrderId(i) ==
  OptProp(Prop(inv[i].args, "additionalOptions"), "orderId") = Undefined

\* C6: two placeOrder invocations that supply no additionalOptions.orderId
\* send payloads whose generated ids are non-empty and different.
C6_GeneratedIdsDiffer ==
  \A i, j \in Invs :
    (/\ i # j
     /\ IsCall(i, "placeOrder") /\ NoOrderId(i)
     /\ IsCall(j, "placeOrder") /\ NoOrderId(j)) =>
      /\ Prop(Payload(i), "id") # Str("")
      /\ Prop(Payload(i), "id") # Prop(Payload(j), "id")

\* The isTest argument of invocation i (undefined when omitted)
IsTestArg(i) == Prop(inv[i].args, "isTest")

OrderType(i) == Prop(Payload(i), "order_type")

C5_TestModeSendsTest ==
  \A i \in Invs :
    (IsCall(i, "placeOrder") /\ (IsTestArg(i) = Bool(TRUE) \/ PROBO_API_MODE = "test"))
      => OrderType(i) = Str("test")

\* The options of a configureProduct call, those of its payload, and the
\* options of a list that carry a code
OptionsGiven(i) == Default(Prop(inv[i].args, "options"), List(<<>>)).v

OptionsSent(i) == Prop(Prop(Payload(i), "products").v[1], "options").v

WithCode(options, code) ==
  {k \in 1..Len(options) : Prop(options[k], "code") = Str(code)}

\* What C7 says of one dimension
DimensionRule(given, built, code) ==
  /\ (WithCode(given, code) = {} /\ WithCode(given, code \o "_mm") = {}) =>
       /\ Cardinality(WithCode(built, code)) = 1
       /\ \A k \in WithCode(built, code) : Prop(built[k], "value") = Num(1000)
  /\ WithCode(given, code \o "_mm") # {} =>
       Cardinality(WithCode(built, code)) = Cardinality(WithCode(given, code))

\* C7: when the options of configureProduct hold no option coded width or
\* width_mm, the options of the payload hold exactly one option coded
\* width, of value 1000; when width_mm is given, no width is added; the
\* same for height and height_mm.
C7_Dimensions ==
  \A i \in Invs :
    IsCall(i, "configureProduct") =>
      /\ DimensionRule(OptionsGiven(i), OptionsSent(i), "width")
      /\ DimensionRule(OptionsGiven(i), OptionsSent(i), "height")

\* configureProduct was sent with width_mm and no height: no width was
\* added, and one height of 1000 was
C7_Witness ==
  \E i \in Invs :
    /\ IsCall(i, "configureProduct")
    /\ WithCode(OptionsGiven(i), "width_mm") # {}
    /\ WithCode(OptionsGiven(i), "width") = {}
    /\ WithCode(OptionsGiven(i), "height") = {}
    /\ WithCode(OptionsGiven(i), "height_mm") = {}
    /\ WithCode(OptionsSent(i), "width") = {}
    /\ Cardinality(WithCode(OptionsSent(i), "height")) = 1

ProductsGiven(i) == Prop(Prop(inv[i].args, "configuration"), "products").v

ProductsSent(i) == Prop(Payload(i), "products").v

\* A list that is absent or empty
Missing(x) == x = Undefined \/ x = List(<<>>)

\* What C8 says of one product p and the product q built from it
FilesRule(p, q) ==
  /\ (Missing(Prop(p, "options")) /\ Missing(Prop(p, "files"))) =>
       /\ Prop(q, "files").t = "list"
       /\ Len(Prop(q, "files").v) = 1
       /\ Prop(Prop(q, "files").v[1], "uri") = Str("https://placekitten.com/800/600")
  /\ (~Missing(Prop(p, "options")) /\ Missing(Prop(p, "files"))) =>
       ~HasKey(q.v, "files")
  /\ ~Missing(Prop(p, "files")) => Prop(q, "files") = Prop(p, "files")

\* C8: a product of a placeOrder configuration with no options and no
\* files is built with exactly one placeholder file; one with an option
\* and no files is built without a files key; files that are given are
\* passed through.
C8_PlaceholderFile ==
  \A i \in Invs :
    IsCall(i, "placeOrder") =>
      /\ Len(ProductsSent(i)) = Len(ProductsGiven(i))
      /\ \A k \in 1..Len(ProductsGiven(i)) :
           FilesRule(ProductsGiven(i)[k], ProductsSent(i)[k])

\* placeOrder was sent with a product that has an option and no files, and
\* the product built has no files key
C8_Witness ==
  \E i \in Invs :
    /\ IsCall(i, "placeOrder")
    /\ \E k \in 1..Len(ProductsGiven(i)) :
         /\ ~Missing(Prop(ProductsGiven(i)[k], "options"))
         /\ Missing(Prop(ProductsGiven(i)[k], "files"))
         /\ ~HasKey(ProductsSent(i)[k].v, "files")

\* An additional option of invocation i (undefined when not given)
Additional(i, k) == OptProp(Prop(inv[i].args, "additionalOptions"), k)

\* A bare string is sent as a one-element list, a list unchanged
Normalized(given, sent) ==
  IF given.t = "str" THEN sent = List(<<given>>) ELSE sent = given

\* C9 as stated: callback_url is present exactly when callbackUrl was
\* given, error_email_addresses exactly when errorEmails was given, and
\* each is the normalized value.
C9_PresentIffGiven ==
  \A i \in Invs :
    IsCall(i, "placeOrder") =>
      /\ HasKey(Payload(i).v, "callback_url") <=>
           Additional(i, "callbackUrl") # Undefined
      /\ HasKey(Payload(i).v, "error_email_addresses") <=>
           Additional(i, "errorEmails") # Undefined
      /\ HasKey(Payload(i).v, "callback_url") =>
           Normalized(Additional(i, "callbackUrl"), Prop(Payload(i), "callback_url"))
      /\ HasKey(Payload(i).v, "error_email_addresses") =>
           Normalized(Additional(i, "errorEmails"),
                      Prop(Payload(i), "error_email_addresses"))

\* C9, amended: callback_url is present exactly when callbackUrl was given
\* and is not the empty string; error_email_addresses is present exactly
\* when errorEmails was given; a bare string is sent as a one-element list
\* and a list, the empty one too, unchanged.
C9_PresentIffNonEmpty ==
  \A i \in Invs :
    IsCall(i, "placeOrder") =>
      /\ HasKey(Payload(i).v, "callback_url") <=>
           (Additional(i, "callbackUrl") # Undefined
            /\ Additional(i, "callbackUrl") # Str(""))
      /\ HasKey(Payload(i).v, "error_email_addresses") <=>
           Additional(i, "errorEmails") # Undefined
      /\ HasKey(Payload(i).v, "callback_url") =>
           Normalized(Additional(i, "callbackUrl"), Prop(Payload(i), "callback_url"))
      /\ HasKey(Payload(i).v, "error_email_addresses") =>
           Normalized(Additional(i, "errorEmails"),
                      Prop(Payload(i), "error_email_addresses"))

\* placeOrder was sent with an empty callbackUrl and a list of errorEmails:
\* no callback_url, and the list as it was given
C9_Witness ==
  \E i \in Invs :
    /\ IsCall(i, "placeOrder")
    /\ Additional(i, "callbackUrl") = Str("")
    /\ Additional(i, "errorEmails").t = "list"
    /\ Len(Additional(i, "errorEmails").v) = 2
    /\ ~HasKey(Payload(i).v, "callback_url")
    /\ Prop(Payload(i), "error_email_addresses") = Additional(i, "errorEmails")

\* The prefix each operation gives its failures
PrefixOf(tool) ==
  CASE tool = "searchProducts" -> "Failed to fetch products"
    [] tool = "configureProduct" -> "Failed to configure product"
    [] tool = "placeOrder" -> "Failed to place order"
    [] tool = "getOrderStatus" -> "Failed to get order status"
    [] tool = "getAllOrders" -> "Failed to get orders"
    [] tool = "cancelOrder" -> "Failed to cancel order"

\* Whether sub occurs in s
Contains(s, sub) ==
  \E k \in 1..(Len(s) - Len(sub) + 1) : SubSeq(s, k, k + Len(sub) - 1) = sub

\* Invocation i has returned after its request was answered outside 2xx
FailedWithResponse(i) ==
  /\ inv[i].pc = "returned"
  /\ inv[i].answer.thrown
  /\ Truthy(Prop(inv[i].answer.error, "response"))

FailStatus(i) == Prop(Prop(inv[i].answer.error, "response"), "status")

FailBody(i) == Prop(Prop(inv[i].answer.error, "response"), "data")

\* The first text item of the envelope of invocation i
ResultText(i) == inv[i].result.value.content[1].text.v

\* The detail C10 states: the message field when the body has one, else
\* the body when it is text, else its JSON serialization (an empty detail
\* adds nothing)
StatedDetail(b) ==
  LET d == IF b.t = "obj" /\ HasKey(b.v, "message") THEN ToStr(Prop(b, "message"))
           ELSE IF b.t = "str" THEN b.v
           ELSE JSONstringify(b)
  IN IF d = "" THEN "" ELSE " - " \o d

\* The detail of the code: none for an empty body (null, "", 0, false),
\* and the message field only when it is not empty
ActualDetail(b) ==
  IF ~Truthy(b) THEN ""
  ELSE IF Truthy(Prop(b, "message")) THEN " - " \o ToStr(Prop(b, "message"))
  ELSE IF b.t = "str" THEN " - " \o b.v
  ELSE " - " \o JSONstringify(b)

\* The failure an operation raises for status s and body b has message
\* "<prefix>: HTTP s", then the detail, then the validation errors of a
\* 400; it carries b; the text handed to the caller contains the status
\* and the message of the body
FailureRule(i, detail) ==
  /\ inv[i].op.thrown
  /\ Prop(inv[i].op.error, "message") =
       Str(PrefixOf(inv[i].tool) \o ": HTTP " \o ToString(FailStatus(i).v)
           \o detail \o ValidationErrors(FailStatus(i), FailBody(i)))
  /\ Prop(inv[i].op.error, "data") = FailBody(i)
  /\ inv[i].result.value.isError
  /\ Contains(ResultText(i), ToString(FailStatus(i).v))
  /\ Truthy(Prop(FailBody(i), "message")) =>
       Contains(ResultText(i), ToStr(Prop(FailBody(i), "message")))

\* C10 as stated: the detail is b.message if b has a message field, else b
\* if it is text, else the JSON serialization of b.
C10_DetailAlways ==
  \A i \in Invs : FailedWithResponse(i) => FailureRule(i, StatedDetail(FailBody(i)))

\* C10, amended: a body that is empty (null, "", 0, false) adds no detail;
\* otherwise the detail is b.message if that field is not empty, else b if
\* it is text, else the JSON serialization of b.
C10_DetailIfBody ==
  \A i \in Invs : FailedWithResponse(i) => FailureRule(i, ActualDetail(FailBody(i)))

\* cancelOrder was answered 404 {message: "Order not found"} and returned
\* the text with both
C10_Witness ==
  \E i \in Invs :
    /\ FailedWithResponse(i)
    /\ inv[i].tool = "cancelOrder"
    /\ FailStatus(i) = Num(404)
    /\ FailBody(i) = NotFound
    /\ ResultText(i) = "Error: Failed to cancel order: HTTP 404 - Order not found"

\* Invocation i has returned after the transport failed its request
Failed(i) == inv[i].pc = "returned" /\ inv[i].answer.thrown

\* The failure the transport raised for invocation i
Failure(i) == inv[i].answer.error

\* The three classes of a failure, by what the transport attached to it
HasResponse(e) == Truthy(Prop(e, "response"))

SentNoResponse(e) == ~HasResponse(e) /\ Truthy(Prop(e, "request"))

LocalFailure(e) == ~HasResponse(e) /\ ~Truthy(Prop(e, "request"))

\* The three shapes of a normalized error
ShapeResponse(i) ==
  LET p == PrefixOf(inv[i].tool) \o ": HTTP "
      m == Prop(inv[i].op.error, "message").v
  IN Len(m) >= Len(p) /\ SubSeq(m, 1, Len(p)) = p

ShapeNoResponse(i) ==
  /\ Prop(inv[i].op.error, "message") =
       Str(PrefixOf(inv[i].tool) \o ": No response received")
  /\ Prop(inv[i].op.error, "data") = Null

ShapeLocal(i) ==
  /\ Prop(inv[i].op.error, "message") =
       Str(PrefixOf(inv[i].tool) \o ": " \o ToStr(Prop(Failure(i), "message")))
  /\ Prop(inv[i].op.error, "data") = Null

\* C11: a failure without a response is normalized to "<prefix>: No
\* response received" with data null when its request was sent, and to
\* "<prefix>: <underlying message>" with data null otherwise; every failure
\* is normalized in exactly one of the three shapes (response, no response,
\* local), the one of its class.
C11_NoResponseClasses ==
  \A i \in Invs :
    Failed(i) =>
      /\ inv[i].op.thrown
      /\ SentNoResponse(Failure(i)) => ShapeNoResponse(i)
      /\ LocalFailure(Failure(i)) => ShapeLocal(i)
      /\ HasResponse(Failure(i)) => ShapeResponse(i)
      /\ Cardinality({s \in {"response", "none", "local"} :
                        \/ s = "response" /\ ShapeResponse(i)
                        \/ s = "none" /\ ShapeNoResponse(i)
                        \/ s = "local" /\ ShapeLocal(i)}) = 1

\* placeOrder got no response and returned that text
C11_Witness ==
  \E i \in Invs :
    /\ Failed(i)
    /\ inv[i].tool = "placeOrder"
    /\ SentNoResponse(Failure(i))
    /\ ResultText(i) = "Error: Failed to place order: No response received"

\* The first position of sub in s
FirstIndex(s, sub) ==
  CHOOSE k \in 1..(Len(s) - Len(sub) + 1) :
    /\ SubSeq(s, k, k + Len(sub) - 1) = sub
    /\ \A j \in 1..(k-1) : SubSeq(s, j, j + Len(sub) - 1) # sub

StartsWith(s, p) == Len(s) >= Len(p) /\ SubSeq(s, 1, Len(p)) = p

ValidationHeader == "\nValidation errors:"

\* The lines that follow "Validation errors:" in the message of the
\* failure the operation of invocation i raised
ListedLines(i) ==
  LET m == Prop(inv[i].op.error, "message").v
  IN IF ~Contains(m, ValidationHeader) THEN <<>>
     ELSE LET rest == SubSeq(m, FirstIndex(m, ValidationHeader)
                                  + Len(ValidationHeader), Len(m))
          IN IF rest = "" THEN <<>> ELSE Tail(SplitLines(rest))

\* The entries listed ("- <entry>"), and the other lines of the listing
ListedEntries(i) ==
  LET ls == SelectSeq(ListedLines(i), LAMBDA l : StartsWith(l, "- "))
  IN [k \in 1..Len(ls) |-> SubSeq(ls[k], 3, Len(ls[k]))]

TrailerLines(i) == SelectSeq(ListedLines(i), LAMBDA l : ~StartsWith(l, "- "))

\* The distinct elements of xs, in the order of their first occurrence
RECURSIVE Distinct(_)
Distinct(xs) ==
  IF xs = <<>> THEN <<>>
  ELSE <<Head(xs)>> \o Distinct(SelectSeq(Tail(xs), LAMBDA x : x # Head(xs)))

IsPrefix(u, v) == Len(u) <= Len(v) /\ u = SubSeq(v, 1, Len(u))

GivenErrors(i) == Prop(FailBody(i), "errors")

\* Invocation i was answered 400 with an errors field of the given type
Refused(i, type) ==
  /\ FailedWithResponse(i)
  /\ FailStatus(i) = Num(400)
  /\ GivenErrors(i).t = type

\* u lists all of v, up to the cut of the listing (C13)
ListsUpToCut(u, v) ==
  /\ IsPrefix(u, v)
  /\ Len(v) <= MaxListedErrors => u = v

\* C12: for a 400 whose errors field is a newline-delimited string the
\* message lists each distinct line exactly once, in the order of first
\* occurrence; when errors is a list its entries are listed as they are,
\* repeated ones included.
C12_DistinctLines ==
  \A i \in Invs :
    /\ (Refused(i, "str") /\ GivenErrors(i).v # "") =>
         ListsUpToCut(ListedEntries(i), Distinct(SplitLines(GivenErrors(i).v)))
    /\ Refused(i, "list") =>
         ListsUpToCut(ListedEntries(i),
                      [k \in 1..Len(GivenErrors(i).v) |-> GivenErrors(i).v[k].v])

\* errors "a\na\nb" was listed as a and b
C12_Witness ==
  \E i \in Invs :
    /\ Refused(i, "str")
    /\ GivenErrors(i) = Str("a\na\nb")
    /\ ListedEntries(i) = <<"a", "b">>

\* The error strings collected from an errors field: the distinct lines of
\* a string (an empty string holds none), the entries of a list
Collected(errors) ==
  IF errors.t = "str"
  THEN IF errors.v = "" THEN <<>> ELSE Distinct(SplitLines(errors.v))
  ELSE [k \in 1..Len(errors.v) |-> errors.v[k].v]

Min(a, b) == IF a < b THEN a ELSE b

\* C13: of the N error strings collected from a 400 the message lists the
\* first min(N, 10), in order, and ends with the line "... and N-10 more
\* errors" exactly when N > 10.
C13_FirstTenAndCount ==
  \A i \in Invs :
    (Refused(i, "str") \/ Refused(i, "list")) =>
      LET all == Collected(GivenErrors(i))
          N == Len(all)
      IN /\ Len(ListedEntries(i)) = Min(N, 10)
         /\ ListedEntries(i) = SubSeq(all, 1, Min(N, 10))
         /\ TrailerLines(i) =
              IF N > 10
              THEN <<"... and " \o ToString(N - 10) \o " more errors">>
              ELSE <<>>
         /\ N > 10 => ListedLines(i)[Len(ListedLines(i))] = TrailerLines(i)[1]

\* Twelve errors were listed as the first ten and "... and 2 more errors"
C13_Witness ==
  \E i \in Invs :
    /\ Refused(i, "list")
    /\ Len(GivenErrors(i).v) = 12
    /\ Len(ListedEntries(i)) = 10
    /\ ListedEntries(i)[10] = "e10"
    /\ TrailerLines(i) = <<"... and 2 more errors">>

\* What handleApiError yields for the failure of invocation i
NormalizerOutcome(i) == handleApiError(Failure(i), PrefixOf(inv[i].tool))

\* C14 as stated: the normalizer never throws; it returns the normalized
\* error to the operation, which raises it.
C14_NormalizerReturns ==
  \A i \in Invs : Failed(i) => ~NormalizerOutcome(i).thrown

\* C14, amended: for every failure of the transport the normalizer builds
\* one error with a message and data and throws it itself; the catch block
\* of the operation neither returns nor raises anything of its own, so the
\* failure of the operation is the very error the normalizer threw.
C14_NormalizerThrows ==
  \A i \in Invs :
    Failed(i) =>
      /\ NormalizerOutcome(i).thrown
      /\ NormalizerOutcome(i).error.t = "error"
      /\ Prop(NormalizerOutcome(i).error, "message").t = "str"
      /\ HasKey(NormalizerOutcome(i).error.v.own, "data")
      /\ inv[i].op = NormalizerOutcome(i)

\* getOrderStatus was answered 404 and its operation raised the error the
\* normalizer threw
C14_Witness ==
  \E i \in Invs :
    /\ Failed(i)
    /\ inv[i].tool = "getOrderStatus"
    /\ FailStatus(i) = Num(404)
    /\ inv[i].op.thrown
    /\ Prop(inv[i].op.error, "data") = NotFound

Returned(i) == inv[i].pc = "returned"

Envelope(i) == inv[i].result.value

\* C15: the envelope has isError true exactly when the operation raised a
\* failure, and then its message text is "Error: " followed by the message
\* of that failure.
C15_ErrorIffRaised ==
  \A i \in Invs :
    Returned(i) =>
      /\ Envelope(i).isError <=> inv[i].op.thrown
      /\ inv[i].op.thrown =>
           ResultText(i) = "Error: " \o Prop(inv[i].op.error, "message").v

\* The second text item of the envelope of invocation i: its data part
ResultData(i) == inv[i].result.value.content[2].text

\* The data part C16 states for a failure with message m and data d
FailureData(m, d) ==
  Obj(<< <<"error", m>> >> \o (IF d = Null THEN <<>> ELSE << <<"details", d>> >>))

\* C16: the data part of a failure envelope is {error, details?}: error is
\* the message of the failure and details the upstream body, present
\* whenever the normalized error carries data that is not null.
C16_DetailsSurfaced ==
  \A i \in Invs :
    (Returned(i) /\ Failed(i) /\ inv[i].op.thrown) =>
      ResultData(i) =
        Str(JSONstringify2(FailureData(Prop(inv[i].op.error, "message"),
                                       Prop(inv[i].op.error, "data"))))

\* Invocation i has returned after its request was answered 2xx
Answered(i) == Returned(i) /\ inv[i].sent # <<>> /\ ~inv[i].answer.thrown

\* The body of that answer
Body(i) == Prop(inv[i].answer.value, "data")

PassingTools ==
  {"configureProduct", "placeOrder", "getOrderStatus", "getAllOrders", "cancelOrder"}

\* C17: the five operations other than searchProducts hand the body of a
\* 2xx answer, whatever JSON value it is, to the caller unchanged and
\* with isError false; cancelOrder sends POST /order/cancel with the body
\* {id: orderId} and nothing else.
C17_BodyPassedThrough ==
  \A i \in Invs :
    /\ (Answered(i) /\ inv[i].tool \in PassingTools) =>
         /\ ~Envelope(i).isError
         /\ ResultData(i) = Str(JSONstringify2(Body(i)))
    /\ IsCall(i, "cancelOrder") =>
         inv[i].sent = <<Request("POST", "/order/cancel",
                                 Obj(<< <<"id", Prop(inv[i].args, "orderId")>> >>))>>

\* A body {data: L, meta: M} of getProducts, either field possibly missing
ProductPage(b) ==
  /\ b.t = "obj"
  /\ HasKey(b.v, "data") => Prop(b, "data").t = "list"
  /\ HasKey(b.v, "meta") => Prop(b, "meta").t = "obj"

\* C18: searchProducts hands a 2xx body {data: L, meta: M} to the caller
\* as {products: L, meta: M} and nothing else, with isError false; products
\* is [] when data is missing and meta is {} when meta is missing.
C18_ProductsRenamed ==
  \A i \in Invs :
    (Answered(i) /\ inv[i].tool = "searchProducts" /\ ProductPage(Body(i))) =>
      /\ ~Envelope(i).isError
      /\ ResultData(i) =
           Str(JSONstringify2(Obj(
             << <<"products", IF HasKey(Body(i).v, "data")
                              THEN Prop(Body(i), "data") ELSE List(<<>>)>>,
                <<"meta", IF HasKey(Body(i).v, "meta")
                          THEN Prop(Body(i), "meta") ELSE Obj(<<>>)>> >>)))

\* searchProducts was answered {data: [{code: "x"}], meta: {total: 1}, links}
\* and returned {products: [{code: "x"}], meta: {total: 1}}
C18_Witness ==
  \E i \in Invs :
    /\ Answered(i)
    /\ inv[i].tool = "searchProducts"
    /\ Body(i).t = "obj"
    /\ HasKey(Body(i).v, "links")
    /\ ~Envelope(i).isError
    /\ ResultText(i) = "Found 1 products"
    /\ ResultData(i) =
         Str(JSONstringify2(Obj(<< <<"products", Products>>, <<"meta", Meta>> >>)))
\* The method and the endpoint fixed for each tool
MethodOf(tool) ==
  IF tool \in {"searchProducts", "getAllOrders"} THEN "GET" ELSE "POST"

EndpointOf(tool) ==
  CASE tool = "searchProducts" -> "/products"
    [] tool = "configureProduct" -> "/products/configure"
    [] tool = "placeOrder" -> "/order"
    [] tool = "getOrderStatus" -> "/order/status"
    [] tool = "getAllOrders" -> "/orders"
    [] tool = "cancelOrder" -> "/order/cancel"

\* The path of a URL: what precedes its query string
PathOf(url) ==
  IF Contains(url, "?") THEN SubSeq(url, 1, FirstIndex(url, "?") - 1) ELSE url

\* C19: every request an invocation sends has the method and the endpoint
\* fixed for its tool.
C19_FixedEndpoint ==
  \A i \in Invs :
    \A k \in 1..Len(inv[i].sent) :
      /\ inv[i].sent[k].method = MethodOf(inv[i].tool)
      /\ PathOf(inv[i].sent[k].url) = EndpointOf(inv[i].tool)

\* C20: nothing is retried: the requests an invocation has sent are
\* pairwise different, whatever failed, and a placeOrder invocation sends
\* POST /order once at most.
C20_NoRetry ==
  \A i \in Invs :
    /\ \A j, k \in 1..Len(inv[i].sent) : j # k => inv[i].sent[j] # inv[i].sent[k]
    /\ inv[i].tool = "placeOrder" => Len(inv[i].sent) <= 1
    /\ Cardinality({k \in 1..Len(inv[i].sent) :
                      /\ inv[i].sent[k].method = "POST"
                      /\ inv[i].sent[k].url = "/order"}) <= 1

\* placeOrder got no response to its POST /order and returned an error
\* having sent it once
C20_Witness ==
  \E i \in Invs :
    /\ Failed(i)
    /\ inv[i].tool = "placeOrder"
    /\ SentNoResponse(Failure(i))
    /\ Envelope(i).isError
    /\ Len(inv[i].sent) = 1
    /\ inv[i].sent[1].method = "POST"
    /\ inv[i].sent[1].url = "/order"

\* Invocations i and j are calls of the same tool with equal arguments
SameCall(i, j) ==
  /\ Called(i) /\ Called(j)
  /\ inv[i].tool = inv[j].tool
  /\ inv[i].args = inv[j].args

\* Invocation i has run up to its await, or to its end
Started(i) == inv[i].pc \in {"awaiting", "lookup", "returned", "escaped"}

Ended(i) == inv[i].pc \in {"returned", "escaped"}

\* The configuration the process started with
StartupEnv ==
  [PROBO_API_KEY |-> Str("key"), PROBO_API_URL |-> Undefined,
   PROBO_API_MODE |-> Undefined]

\* The request of invocation i carries an id made from the clock
ClockId(i) == inv[i].tool = "placeOrder" /\ NoOrderId(i)

\* What of an invocation the other invocations could have influenced: the
\* requests it sent and, given the answer to its request, its result
SameResult(i, j) ==
  (Ended(i) /\ Ended(j) /\ inv[i].sent = inv[j].sent
     /\ inv[i].answer = inv[j].answer) => inv[i].result = inv[j].result

\* The positions at which invocations i and j have both sent a request
Both(i, j) ==
  {k \in 1..Len(inv[i].sent) : k <= Len(inv[j].sent)}

ContactEmail(i) ==
  LET ofAddress == Prop(Prop(inv[i].args, "address"), "address_email")
      ofOptions == Additional(i, "contactEmail")
  IN IF ofAddress # Undefined THEN ofAddress
     ELSE IF ofOptions # Undefined THEN ofOptions
     ELSE Str("")

\* C22: every placeOrder payload has the key contact_email; its value is
\* the e-mail of the address when one is set, else contactEmail of the
\* additional options when one is set, else the empty string.
C22_ContactEmail ==
  \A i \in Invs :
    IsCall(i, "placeOrder") =>
      /\ HasKey(Payload(i).v, "contact_email")
      /\ Prop(Payload(i), "contact_email") = ContactEmail(i)

\* An order with both e-mail addresses set was sent with that of the
\* address
C22_Witness ==
  \E i \in Invs :
    /\ IsCall(i, "placeOrder")
    /\ Additional(i, "contactEmail") = Str("contact@example.com")
    /\ Prop(Prop(inv[i].args, "address"), "address_email") = Str("test@example.com")
    /\ Prop(Payload(i), "contact_email") = Str("test@example.com")
\* What the caller reads from the envelope of invocation i
ParsedData(i) == JSONparse(Envelope(i).content[2].text)

\* C23: every result a tool returns has a content list of exactly two
\* text items; the first holds the message, the second a JSON document
\* that the caller parses back into the data: what the operation returned
\* on success, an object with the key error on failure.
C23_TwoTextItems ==
  \A i \in Invs :
    Returned(i) =>
      /\ Len(Envelope(i).content) = 2
      /\ \A k \in 1..2 : Envelope(i).content[k].type = "text"
      /\ Envelope(i).content[1].text.t = "str"
      /\ Envelope(i).content[2].text.t = "str"
      /\ ~ParsedData(i).thrown
      /\ JSONstringify2(ParsedData(i).value) = Envelope(i).content[2].text.v
      /\ IF Envelope(i).isError
         THEN ParsedData(i).value.t = "obj" /\ HasKey(ParsedData(i).value.v, "error")
         ELSE ~inv[i].op.thrown /\ ParsedData(i).value = inv[i].op.value

\* searchProducts returned its products, and the caller read them from the
\* second item
C23_Witness ==
  \E i \in Invs :
    /\ Returned(i)
    /\ inv[i].tool = "searchProducts"
    /\ ~Envelope(i).isError
    /\ Len(Envelope(i).content) = 2
    /\ ~ParsedData(i).thrown
    /\ Prop(ParsedData(i).value, "products") = Prop(GoodBody, "data")

\* C24: when the API key is missing at startup the process never starts:
\* no tool invocation is handled and no request is sent, ever.
C24_NoKeyNoStart ==
  ~Truthy(env.PROBO_API_KEY) =>
    \A i \in Invs : inv[i].pc = "idle" /\ inv[i].sent = <<>>

\* The key is not set, time has passed and nothing was handled
C24_Witness ==
  /\ env.PROBO_API_KEY = Undefined
  /\ now = MaxClock
  /\ \A i \in Invs : inv[i] = Idle

\* Invocation i has got the answer of the transport to its request
GotAnswer(i) == inv[i].answer # Idle.answer

\* C25: an invocation that sent a request returns only once the transport
\* has answered it (there is no timeout: unanswered, it stays as it is);
\* the result it returned never changes; and when every request is
\* answered in the end, every invocation called returns in the end.
C25_ReturnsOnceAnswered ==
  /\ [](\A i \in Invs :
          (inv[i].sent # <<>> /\ Ended(i)) => (GotAnswer(i) /\ Returned(i)))
  /\ [][\A i \in Invs : Ended(i) => inv'[i] = inv[i]]_vars
  /\ \A i \in Invs : Called(i) ~> Returned(i)

\* The second invocation was answered and has returned while the first,
\* called before it, still waits for its answer
C25_Witness ==
  /\ inv[1].pc = "awaiting" /\ ~GotAnswer(1)
  /\ inv[2].pc = "returned" /\ GotAnswer(2)

\* Invocation i has sent its request
Sent(i) == inv[i].sent # <<>>

FirstRequest(i) == inv[i].sent[1]

\* The request the builder of invocation i makes of args in this state
Rebuilt(i, args) == ToolRequest(inv[i].tool, args, now)

\* Invocation i is a placeOrder that gives no orderId: its id is generated
GeneratedId(i) ==
  inv[i].tool = "placeOrder" /\ ~Truthy(Additional(i, "orderId"))

\* Invocation i is a placeOrder that leaves isTest out
ModeDefault(i) == inv[i].tool = "placeOrder" /\ IsTestArg(i) = Undefined

\* The arguments of invocation i with what its builder read elsewhere
\* made explicit: isTest as the configured mode gives it, and orderId as
\* the id that was generated
ExplicitArgs(i) ==
  Obj(Spread(inv[i].args.v,
        (IF ModeDefault(i)
         THEN << <<"isTest", Bool(PROBO_API_MODE = "test")>> >> ELSE <<>>)
        \o (IF GeneratedId(i)
            THEN << <<"additionalOptions",
                      Obj(Spread(OrElse(Prop(inv[i].args, "additionalOptions"),
                                        Obj(<<>>)).v,
                                 << <<"orderId", Prop(Payload(i), "id")>> >>))>> >>
            ELSE <<>>)))

\* C26 as stated: the request of an invocation is a function of its
\* arguments alone: building it again from them, at any later time and
\* after any other call, gives the request that was sent, and two
\* invocations of one tool with equal arguments send identical requests.
C26_ArgsOnly ==
  /\ \A i \in Invs : Sent(i) => Rebuilt(i, inv[i].args) = Ok(FirstRequest(i))
  /\ \A i, j \in Invs :
       (SameCall(i, j) /\ Sent(i) /\ Sent(j)) => FirstRequest(i) = FirstRequest(j)

\* C26, amended: the request is a function of the arguments, of the
\* configured mode when a placeOrder leaves isTest out, and of the clock
\* when a placeOrder gives no orderId (its id is order-<clock>); so two
\* invocations with equal arguments send requests that are identical, but
\* for that generated id.
C26_ArgsModeAndClock ==
  /\ \A i \in Invs :
       Sent(i) =>
         /\ Rebuilt(i, ExplicitArgs(i)) = Ok(FirstRequest(i))
         /\ GeneratedId(i) =>
              \E c \in 0..now :
                Prop(Payload(i), "id") = Str("order-" \o ToString(c))
         /\ ModeDefault(i) =>
              OrderType(i) = (IF env.PROBO_API_MODE = Str("production")
                              THEN Str("production") ELSE Str("test"))
  /\ \A i, j \in Invs :
       (SameCall(i, j) /\ Sent(i) /\ Sent(j)) =>
         IF GeneratedId(i)
         THEN /\ FirstRequest(i).method = FirstRequest(j).method
              /\ FirstRequest(i).url = FirstRequest(j).url
              /\ Spread(Payload(i).v, << <<"id", Null>> >>)
                   = Spread(Payload(j).v, << <<"id", Null>> >>)
         ELSE FirstRequest(i) = FirstRequest(j)

\* Under the mode production, two placeOrder calls with equal arguments
\* that give neither isTest nor an orderId have sent production orders
\* whose ids differ
C26_Witness ==
  /\ env.PROBO_API_MODE = Str("production")
  /\ SameCall(1, 2) /\ Sent(1) /\ Sent(2)
  /\ GeneratedId(1) /\ ModeDefault(1)
  /\ OrderType(1) = Str("production") /\ OrderType(2) = Str("production")
  /\ Prop(Payload(1), "id") # Prop(Payload(2), "id")

\* Invocation i has got the answer of the transport to its product lookup
GotLookup(i) == inv[i].lookup # Idle.lookup

\* The normalized failure of the POST of invocation i, as its handler
\* reports it
PostFailureReported(i) ==
  LET message == "Failed to configure product: " \o
                 (IF HasResponse(Failure(i)) THEN "HTTP " \o ToStr(FailStatus(i))
                  ELSE IF SentNoResponse(Failure(i)) THEN "No response received"
                  ELSE ToStr(Prop(Failure(i), "message")))
  IN /\ inv[i].op = handleApiError(Failure(i), "Failed to configure product")
     /\ HasResponse(Failure(i)) => Prop(inv[i].op.error, "data") = FailBody(i)
     /\ StartsWith(Prop(inv[i].op.error, "message").v, message)
     /\ inv[i].result.kind = "envelope"
     /\ Envelope(i).isError
     /\ ResultText(i) = "Error: " \o Prop(inv[i].op.error, "message").v

\* C27: when the POST of configureProduct fails, the handler first awaits
\* the product lookup, with nothing normalized or returned yet, and then
\* reports the normalized failure of the POST (its prefix, status and
\* body), whatever the lookup answered: products, none, a body it cannot
\* read, or a failure.
C27_PostFailureReported ==
  \A i \in Invs :
    (inv[i].tool = "configureProduct" /\ inv[i].answer.thrown) =>
      /\ inv[i].pc \in {"lookup", "returned"}
      /\ Len(inv[i].sent) = 2
      /\ inv[i].pc = "lookup" =>
           ~GotLookup(i) /\ inv[i].op = Idle.op /\ inv[i].result = Idle.result
      /\ inv[i].pc = "returned" => GotLookup(i) /\ PostFailureReported(i)

\* The POST was refused with a 404 and the lookup then failed with no
\* response at all: the 404 is what the caller is told
C27_Witness ==
  /\ inv[1].tool = "configureProduct" /\ inv[1].pc = "returned"
  /\ inv[1].answer = HttpError(404, NotFound)
  /\ inv[1].lookup = NoResponse
  /\ ResultText(1) =
       "Error: Failed to configure product: HTTP 404 - Order not found"

\* The tools whose language C28 is about
LanguageTools == {"searchProducts", "placeOrder"}

\* The pairs of an object without the key k
Without(pairs, k) == SelectSeq(pairs, LAMBDA p : p[1] # k)

\* The arguments args of tool without the language: the language argument
\* of searchProducts, the language field of the configuration of placeOrder
WithoutLanguage(tool, args) ==
  IF tool = "placeOrder"
  THEN Obj([k \in 1..Len(args.v) |->
              IF args.v[k][1] = "configuration"
              THEN <<"configuration", Obj(Without(args.v[k][2].v, "language"))>>
              ELSE args.v[k]])
  ELSE Obj(Without(args.v, "language"))

\* Invocation i gives a language
GivesLanguage(i) ==
  WithoutLanguage(inv[i].tool, inv[i].args) # inv[i].args

\* C28: the language argument of searchProducts and the language of the
\* configuration of placeOrder have no effect on the request: the request
\* sent is the one built from the arguments without the language, and two
\* invocations that differ in the language only send identical requests
\* (but for the id of a placeOrder without orderId, taken from the clock
\* of each).
C28_LanguageNoEffect ==
  /\ \A i \in Invs :
       (Sent(i) /\ inv[i].tool \in LanguageTools) =>
         Rebuilt(i, WithoutLanguage(inv[i].tool, ExplicitArgs(i)))
           = Ok(FirstRequest(i))
  /\ \A i, j \in Invs :
       (/\ Sent(i) /\ Sent(j)
        /\ inv[i].tool = inv[j].tool /\ inv[i].tool \in LanguageTools
        /\ WithoutLanguage(inv[i].tool, inv[i].args)
             = WithoutLanguage(inv[j].tool, inv[j].args)) =>
         /\ FirstRequest(i).method = FirstRequest(j).method
         /\ FirstRequest(i).url = FirstRequest(j).url
         /\ IF GeneratedId(i)
            THEN Without(Payload(i).v, "id") = Without(Payload(j).v, "id")
            ELSE Payload(i) = Payload(j)

\* Two placeOrder calls of the same millisecond, one with a language in
\* its configuration and one without, have sent the same request
C28_Witness ==
  /\ inv[1].tool = "placeOrder" /\ inv[2].tool = "placeOrder"
  /\ Sent(1) /\ Sent(2)
  /\ ~GivesLanguage(1) /\ GivesLanguage(2)
  /\ WithoutLanguage("placeOrder", inv[2].args) = inv[1].args
  /\ FirstRequest(1) = FirstRequest(2)

\* The order_type "test" when test holds, and "production" otherwise
TypeFor(test) == IF test THEN Str("test") ELSE Str("production")

====
